---- MODULE Spec2Model ----
(***************************************************************************)
(* Model of the platform-starter registry (starter.ServiceLauncher), the   *)
(* VM starter (platform.VMServiceStarter) and its signal watcher.          *)
(*                                                                         *)
(* Every task runs one operation at a time.  An operation is cut into      *)
(* steps at its lock operations and at its calls into the Service, the     *)
(* Engine and the Starter, so that the order of those calls is visible.    *)
(* calls[t] is the list of calls the current operation of t has made.      *)
(***************************************************************************)
EXTENDS Naturals, Sequences, FiniteSets

VARIABLES registry, wHolder, wActive, readers, pc, op, local, calls, result,
          watchers, ctxDone, lastReg, ws, wsRead

vars == <<registry, wHolder, wActive, readers, pc, op, local, calls, result,
          watchers, ctxDone, lastReg, ws, wsRead>>

(* ------------------------------ bounds -------------------------------- *)
MaxDeps == 2
MaxWatchers == 2
MaxWrites == 2

(* ------------------------------ domains ------------------------------- *)
Tasks == {"t1", "t2"}
SeqTasks == {"t1"}
Launchers == {"L1", "L2"}
SeqLaunchers == {"L1"}
\* the package-level launcher's registry (serviceStarterRegistry, registryMu)
Pkg == "pkg"
Registries == Launchers \cup {Pkg}

VM == "virtual_machine"
Platforms == {VM, "docker"}

HTTPServiceType == "http"

NoStarter == "nil"
VMStarter == "VMServiceStarter"
Starters == {VMStarter, "mockA", "mockB"}

\* *zap.Logger values, and the outcomes of zap.NewProduction()
NoLogger == "nil"
ZapOk == "ok"
ZapResults == {ZapOk, "err"}
\* a VMServiceStarter whose logger field is nil
VMNoLogger == "VMServiceStarter{logger: nil}"

\* NewVMServiceStarter(logger): a nil logger is replaced by zap.NewProduction()'s,
\* and when that fails the error is printed and the nil logger is kept.
NewVMServiceStarter(logger, zap) ==
    IF logger # NoLogger \/ zap = ZapOk THEN VMStarter ELSE VMNoLogger

IsVMServiceStarter(s) == s \in {VMStarter, VMNoLogger}
HasLogger(s) == s # VMNoLogger

\* The package-level logger: init() declares a local of the same name with :=,
\* so the package-level variable is never assigned.
PkgLogger == NoLogger

NoTask == "none"
NoEngine == "nil"
Engines == {"e1", "e2"}
DepValues == Engines \cup {"logger"}

Background == "background"
Contexts == {Background, "ctx1"}

Services == {"httpSvc", "fakeHttp", "worker", "workerRoutes"}

RECURSIVE SeqsUpTo(_, _)
SeqsUpTo(S, n) ==
    IF n = 0 THEN {<<>>}
    ELSE LET shorter == SeqsUpTo(S, n - 1)
         IN  shorter \cup {Append(q, x) : q \in shorter, x \in S}

DepLists == SeqsUpTo(DepValues, MaxDeps)

\* deps ...interface{} may also hold nil
NilDep == "nil"

(* ------------------------- services and errors ------------------------ *)
Type(svc) == IF svc \in {"httpSvc", "fakeHttp"} THEN HTTPServiceType ELSE "worker"

IsHTTPService(svc) == svc \in {"httpSvc", "workerRoutes"}

IsEngine(dep) == dep \in Engines

Error(msg, arg, cause) == [msg |-> msg, arg |-> arg, cause |-> cause]
NilError == Error("nil", "", "")
ErrorsNew(msg) == Error(msg, "", "")
Errorf(format, arg) == Error(format, arg, "")
ErrorfWrap(format, err) == Error(format, "", err.msg)

RunResults == {NilError, ErrorsNew("run error")}

Call(name, arg, ret) == [op |-> name, arg |-> arg, ret |-> ret]
Log(level, msg) == Call("log", msg, level)

\* network.MockWebSocket: the methods an error can be injected for, the
\* message types of gorilla/websocket, and a message as the mock stores it.
\* via is history: the method that stored the message.
WSMethods == {"ReadMessage", "WriteMessage", "WriteControl", "Close"}
TextMessage == "TextMessage"
CloseMessage == "CloseMessage"
Message(type, data, via) == [MessageType |-> type, Data |-> data, via |-> via]
NoMessage == Message("0", "nil", "none")
\* No entry for a method in the Errors map.
NoEntry == Error("no entry", "", "")

(* ------------------------------ state --------------------------------- *)
NoOp == [name |-> "none", l |-> "L1", p |-> VM, s |-> NoStarter,
         svc |-> "httpSvc", deps |-> <<>>, ctx |-> Background,
         engine |-> NoEngine, msg |-> NoMessage, method |-> "none",
         inject |-> NilError, options |-> <<>>]

\* before and later are history, kept for a lookup (GetPlatformStarter, Start):
\* the starter of the last registration of its platform completed before the
\* call began, and the starters written for that platform since. during is
\* history too: the tasks that were blocked in Engine.Run when the call began.
NoLocal == [starter |-> NoStarter, ok |-> FALSE,
            arg |-> [ctx |-> Background, svc |-> "httpSvc", deps |-> <<>>],
            engine |-> NoEngine, ret |-> NilError, vmFrom |-> 0,
            before |-> NoStarter, later |-> {}, during |-> {},
            sendErr |-> NilError]

NoResult == [starter |-> NoStarter, err |-> NilError]

NewServiceLauncherEmpty == [p \in Platforms |-> NoStarter]

\* NewServiceLauncher: an empty map, then RegisterPlatform(ctx, platform.VM,
\* platform.NewVMServiceStarter(logger)).
NewServiceLauncher == [p \in Platforms |-> IF p = VM THEN VMStarter ELSE NoStarter]

\* serviceStarterRegistry = make(map[platform.Type]platform.ServiceStarter)
EmptyRegistry == [p \in Platforms |-> NoStarter]

\* The registries before any call: each ServiceLauncher as constructed, the
\* package-level map as declared.
NewRegistry(r) == IF r \in Launchers THEN NewServiceLauncher ELSE EmptyRegistry

NewMockWebSocket ==
    [Messages |-> <<>>, Writes |-> <<>>, TimesWritten |-> 0,
     Errors |-> [m \in WSMethods |-> NoEntry], Closed |-> FALSE, mu |-> NoTask]

Fresh ==
    /\ registry = [r \in Registries |-> NewRegistry(r)]
    /\ wHolder = [r \in Registries |-> NoTask]
    /\ wActive = [r \in Registries |-> FALSE]
    /\ readers = [r \in Registries |-> {}]
    /\ op = [t \in Tasks |-> NoOp]
    /\ local = [t \in Tasks |-> NoLocal]
    /\ calls = [t \in Tasks |-> <<>>]
    /\ result = [t \in Tasks |-> NoResult]
    /\ watchers = <<>>
    /\ ctxDone = [c \in Contexts |-> FALSE]
    /\ lastReg = [r \in Registries |-> NewRegistry(r)]
    /\ ws = NewMockWebSocket
    /\ wsRead = <<>>

\* The launchers are constructed and main is running.
Init == Fresh /\ pc = [t \in Tasks |-> "idle"]

Returned(t) == pc[t] = "ret"
CanCall(t) == pc[t] \in {"idle", "ret"}

\* Start invocations that may still install a watcher.
WatcherRoom ==
    Len(watchers) + Cardinality({u \in Tasks : op[u].name = "Start" /\ ~Returned(u)})
        < MaxWatchers

\* The tasks whose Start is inside engine.Run().
BlockedInRun == {u \in Tasks : pc[u] = "run_blocked"}

LookupOps == {"GetPlatformStarter", "Start"}
InLookup(u, l, p) ==
    op[u].name \in LookupOps /\ op[u].l = l /\ op[u].p = p /\ ~CanCall(u)

\* Starters already written for p by a RegisterPlatform that has not returned.
WrittenNotReturned(l, p) ==
    {op[u].s : u \in {v \in Tasks : /\ op[v].name = "RegisterPlatform"
                                    /\ op[v].l = l /\ op[v].p = p
                                    /\ pc[v] = "reg_unlock"}}

Begin(t, o, first) ==
    /\ CanCall(t)
    /\ op' = [op EXCEPT ![t] = o]
    /\ pc' = [pc EXCEPT ![t] = first]
    /\ local' = [local EXCEPT ![t] =
                    IF o.name \in LookupOps
                      THEN [NoLocal EXCEPT !.before = lastReg[o.l][o.p],
                                           !.later = WrittenNotReturned(o.l, o.p),
                                           !.during = BlockedInRun]
                      ELSE [NoLocal EXCEPT !.during = BlockedInRun]]
    /\ calls' = [calls EXCEPT ![t] = <<>>]
    /\ result' = [result EXCEPT ![t] = NoResult]
    /\ UNCHANGED <<registry, wHolder, wActive, readers, watchers, ctxDone, lastReg,
                   ws, wsRead>>

(* ------------------------- sync.RWMutex ------------------------------- *)
LockGrantedEarly(l, t) == wHolder[l] = t /\ ~wActive[l]

\* ... then wait for the active readers to leave.
LockGranted(l, t) == wHolder[l] = t /\ ~wActive[l] /\ readers[l] = {}

(* ------------------- ServiceLauncher.RegisterPlatform ----------------- *)
CallRegisterPlatform(t, l, p, s) ==
    Begin(t, [NoOp EXCEPT !.name = "RegisterPlatform", !.l = l, !.p = p, !.s = s],
          "reg_lock")

\* Lock: take the writer mutex (new readers are held off from here on) ...
RegLock(t) ==
    /\ pc[t] = "reg_lock"
    /\ wHolder[op[t].l] = NoTask
    /\ wHolder' = [wHolder EXCEPT ![op[t].l] = t]
    /\ pc' = [pc EXCEPT ![t] = "reg_wait"]
    /\ UNCHANGED <<registry, wActive, readers, op, local, calls, result,
                   watchers, ctxDone, lastReg, ws, wsRead>>

RegLocked(t) ==
    /\ pc[t] = "reg_wait"
    /\ LockGranted(op[t].l, t)
    /\ wActive' = [wActive EXCEPT ![op[t].l] = TRUE]
    /\ pc' = [pc EXCEPT ![t] = "reg_body"]
    /\ UNCHANGED <<registry, wHolder, readers, op, local, calls, result,
                   watchers, ctxDone, lastReg, ws, wsRead>>

RegistryPutFresh(m, p, s) == [q \in DOMAIN m |-> IF q = p THEN s ELSE NoStarter]

RegistryPutIfAbsent(m, p, s) == IF m[p] # NoStarter THEN m ELSE [m EXCEPT ![p] = s]

\* l.serviceStarterRegistry[platformType] = starter
RegistryPut(m, p, s) == [m EXCEPT ![p] = s]

RegisterLogsWarnLate(m, p) ==
    <<Call("put", p, "")>>
    \o (IF m[p] # NoStarter
          THEN <<Log("warn", "Overriding existing platform starter")>> ELSE <<>>)
    \o <<Log("info", "Registered platform starter")>>

\* if _, exists := ...; exists { Warn }  ...  Info
RegisterLogs(m, p) ==
    (IF m[p] # NoStarter
       THEN <<Log("warn", "Overriding existing platform starter")>> ELSE <<>>)
    \o <<Call("put", p, ""), Log("info", "Registered platform starter")>>

RegBodyShared(t) ==
    /\ pc[t] = "reg_body"
    /\ calls' = [calls EXCEPT ![t] = @ \o RegisterLogs(registry[op[t].l], op[t].p)]
    /\ registry' = [r \in Registries |-> RegistryPut(registry[r], op[t].p, op[t].s)]
    /\ pc' = [pc EXCEPT ![t] = "reg_unlock"]
    /\ local' = [u \in Tasks |->
                    IF InLookup(u, op[t].l, op[t].p)
                      THEN [local[u] EXCEPT !.later = @ \cup {op[t].s}]
                      ELSE local[u]]
    /\ UNCHANGED <<wHolder, wActive, readers, op, result, watchers,
                   ctxDone, lastReg, ws, wsRead>>

RegBody(t) ==
    /\ pc[t] = "reg_body"
    /\ op[t].l \in Launchers
    /\ calls' = [calls EXCEPT ![t] = @ \o RegisterLogs(registry[op[t].l], op[t].p)]
    /\ registry' = [registry EXCEPT ![op[t].l] = RegistryPut(@, op[t].p, op[t].s)]
    /\ pc' = [pc EXCEPT ![t] = "reg_unlock"]
    /\ local' = [u \in Tasks |->
                    IF InLookup(u, op[t].l, op[t].p)
                      THEN [local[u] EXCEPT !.later = @ \cup {op[t].s}]
                      ELSE local[u]]
    /\ UNCHANGED <<wHolder, wActive, readers, op, result, watchers,
                   ctxDone, lastReg, ws, wsRead>>

\* defer l.registryMu.Unlock(), and the return
RegUnlock(t) ==
    /\ pc[t] = "reg_unlock"
    /\ wHolder' = [wHolder EXCEPT ![op[t].l] = NoTask]
    /\ wActive' = [wActive EXCEPT ![op[t].l] = FALSE]
    /\ lastReg' = [lastReg EXCEPT ![op[t].l][op[t].p] = op[t].s]
    /\ pc' = [pc EXCEPT ![t] = "ret"]
    /\ UNCHANGED <<registry, readers, op, local, calls, result, watchers, ctxDone,
                   ws, wsRead>>

(* ------------------- ServiceLauncher.GetPlatformStarter --------------- *)
CallGetPlatformStarter(t, l, p) ==
    Begin(t, [NoOp EXCEPT !.name = "GetPlatformStarter", !.l = l, !.p = p],
          "get_rlock")

RLock(t, at, next) ==
    /\ pc[t] = at
    /\ wHolder[op[t].l] = NoTask
    /\ readers' = [readers EXCEPT ![op[t].l] = @ \cup {t}]
    /\ pc' = [pc EXCEPT ![t] = next]
    /\ UNCHANGED <<registry, wHolder, wActive, op, local, calls, result,
                   watchers, ctxDone, lastReg, ws, wsRead>>

RegistryGetAlwaysOk(m, p) == [starter |-> m[p], ok |-> TRUE]

\* starter, ok := l.serviceStarterRegistry[platformType]
RegistryGet(m, p) == [starter |-> m[p], ok |-> m[p] # NoStarter]

MapRead(t, at, next) ==
    /\ pc[t] = at
    /\ LET got == RegistryGet(registry[op[t].l], op[t].p)
       IN  local' = [local EXCEPT ![t].starter = got.starter, ![t].ok = got.ok]
    /\ pc' = [pc EXCEPT ![t] = next]
    /\ UNCHANGED <<registry, wHolder, wActive, readers, op, calls, result,
                   watchers, ctxDone, lastReg, ws, wsRead>>

GetRLock(t) == RLock(t, "get_rlock", "get_read")
GetRead(t) == MapRead(t, "get_read", "get_return")

GetResult(lc, p) ==
    IF ~lc.ok
      THEN [starter |-> NoStarter,
            err |-> Errorf("no starter registered for platform: %s", p)]
      ELSE [starter |-> lc.starter, err |-> NilError]

\* the return, with the deferred RUnlock
GetReturn(t) ==
    /\ pc[t] = "get_return"
    /\ readers' = [readers EXCEPT ![op[t].l] = @ \ {t}]
    /\ result' = [result EXCEPT ![t] = GetResult(local[t], op[t].p)]
    /\ pc' = [pc EXCEPT ![t] = "ret"]
    /\ UNCHANGED <<registry, wHolder, wActive, op, local, calls, watchers,
                   ctxDone, lastReg, ws, wsRead>>

(* ------------------------ ServiceLauncher.Start ----------------------- *)
CallStart(t, l, ctx, svc, p, deps) ==
    /\ WatcherRoom
    /\ Begin(t, [NoOp EXCEPT !.name = "Start", !.l = l, !.p = p, !.svc = svc,
                             !.deps = deps, !.ctx = ctx],
             "start_rlock")

StartRLock(t) == RLock(t, "start_rlock", "start_read")
StartRead(t) == MapRead(t, "start_read", "start_runlock")

StartRUnlockDeferred(t) ==
    /\ pc[t] = "start_runlock"
    /\ pc' = [pc EXCEPT ![t] = "start_check"]
    /\ UNCHANGED <<registry, wHolder, wActive, readers, op, local, calls, result,
                   watchers, ctxDone, lastReg, ws, wsRead>>

\* l.registryMu.RUnlock(), before the starter is called
StartRUnlock(t) ==
    /\ pc[t] = "start_runlock"
    /\ readers' = [readers EXCEPT ![op[t].l] = @ \ {t}]
    /\ pc' = [pc EXCEPT ![t] = "start_check"]
    /\ UNCHANGED <<registry, wHolder, wActive, op, local, calls, result,
                   watchers, ctxDone, lastReg, ws, wsRead>>

\* if !ok { return fmt.Errorf(...) };  l.logger.Info(..., service.Type())
StartCheck(t) ==
    /\ pc[t] = "start_check"
    /\ IF ~local[t].ok
         THEN /\ result' = [result EXCEPT ![t].err =
                               Errorf("unsupported platform type: %s", op[t].p)]
              /\ pc' = [pc EXCEPT ![t] = "ret"]
              /\ calls' = calls
         ELSE /\ calls' = [calls EXCEPT ![t] =
                               @ \o <<Call("Type", "", Type(op[t].svc)),
                                      Log("info", "Starting service")>>]
              /\ pc' = [pc EXCEPT ![t] = "delegate"]
              /\ result' = result
    /\ UNCHANGED <<registry, wHolder, wActive, readers, op, local, watchers,
                   ctxDone, lastReg, ws, wsRead>>

\* the arguments of starter.Start(ctx, service, deps...)
StarterArgs(o) == [ctx |-> o.ctx, svc |-> o.svc, deps |-> o.deps]

\* the starter the launcher calls: the one it read under the lock
Callee(lc) == lc.starter

DelegateReread(t) ==
    /\ pc[t] = "delegate"
    /\ calls' = [calls EXCEPT ![t] = Append(@, Call("Starter.Start", registry[op[t].l][op[t].p], ""))]
    /\ local' = [local EXCEPT ![t].arg = StarterArgs(op[t]),
                              ![t].vmFrom = Len(calls[t]) + 2]
    /\ pc' = [pc EXCEPT ![t] = IF IsVMServiceStarter(registry[op[t].l][op[t].p])
                                  THEN "vm_entry" ELSE "mock_run"]
    /\ UNCHANGED <<registry, wHolder, wActive, readers, op, result, watchers,
                   ctxDone, lastReg, ws, wsRead>>

Delegate(t) ==
    /\ pc[t] = "delegate"
    /\ calls' = [calls EXCEPT ![t] = Append(@, Call("Starter.Start", Callee(local[t]), ""))]
    /\ local' = [local EXCEPT ![t].arg = StarterArgs(op[t]),
                              ![t].vmFrom = Len(calls[t]) + 2]
    /\ pc' = [pc EXCEPT ![t] = IF IsVMServiceStarter(Callee(local[t]))
                                  THEN "vm_entry" ELSE "mock_run"]
    /\ UNCHANGED <<registry, wHolder, wActive, readers, op, result, watchers,
                   ctxDone, lastReg, ws, wsRead>>

\* A caller-supplied starter (the tests' mockServiceStarter): it returns what
\* its startServiceFunc returns.
MockStart(t) ==
    /\ pc[t] = "mock_run"
    /\ \E r \in {NilError, ErrorsNew("failed to start service")} :
          local' = [local EXCEPT ![t].ret = r]
    /\ pc' = [pc EXCEPT ![t] = "starter_done"]
    /\ UNCHANGED <<registry, wHolder, wActive, readers, op, calls, result,
                   watchers, ctxDone, lastReg, ws, wsRead>>

StartResultWrapped(err) ==
    IF err # NilError THEN ErrorfWrap("failed to start service: %w", err) ELSE NilError

\* return starter.Start(ctx, service, deps...)
StartResult(err) == err

StarterReturn(t) ==
    /\ pc[t] = "starter_done"
    /\ result' = [result EXCEPT ![t].err = StartResult(local[t].ret)]
    /\ pc' = [pc EXCEPT ![t] = "ret"]
    /\ UNCHANGED <<registry, wHolder, wActive, readers, op, local, calls,
                   watchers, ctxDone, lastReg, ws, wsRead>>

(* ----------------------- VMServiceStarter.Start ----------------------- *)
VMStep(t, newpc, newcalls, ret) ==
    /\ calls' = [calls EXCEPT ![t] = @ \o newcalls]
    /\ local' = [local EXCEPT ![t].ret = ret]
    /\ pc' = [pc EXCEPT ![t] = newpc]
    /\ UNCHANGED <<registry, wHolder, wActive, readers, op, result, watchers,
                   ctxDone, lastReg, ws, wsRead>>

\* v.logger.Info("Starting service on VM platform", zap.String("type", string(service.Type())))
VMEntryCalls(svc) ==
    <<Call("Type", "", Type(svc)), Log("info", "Starting service on VM platform")>>

\* The argument service.Type() is evaluated, then Info is called on v.logger:
\* on a nil *zap.Logger that is a nil-pointer dereference, a panic.
VMEntry(t) ==
    /\ pc[t] = "vm_entry"
    /\ IF HasLogger(Callee(local[t]))
         THEN VMStep(t, "vm_init", VMEntryCalls(local[t].arg.svc), NilError)
         ELSE VMStep(t, "panic", <<Call("Type", "", Type(local[t].arg.svc))>>, NilError)

AfterInitializeIgnoringError(r) == "vm_switch"

\* if err := service.Initialize(ctx, deps...); err != nil { ... return ... }
AfterInitialize(r) == IF r # NilError THEN "starter_done" ELSE "vm_switch"

InitializeFailed(r) ==
    IF r # NilError THEN ErrorfWrap("failed to initialize service: %w", r) ELSE NilError

VMInitialize(t) ==
    /\ pc[t] = "vm_init"
    /\ \E r \in {NilError, ErrorsNew("initialize error")} :
          VMStep(t, AfterInitialize(r),
                 <<Call("Initialize", "", r.msg)>>
                 \o (IF r # NilError
                       THEN <<Log("error", "Failed to initialize service")>> ELSE <<>>),
                 InitializeFailed(r))

DispatchUnchecked(svc) == IF Type(svc) = HTTPServiceType THEN "http_find" ELSE "unsupported"

DispatchByCapability(svc) == IF IsHTTPService(svc) THEN "http_find" ELSE "unsupported"

DispatchMismatchFirst(svc) ==
    IF ~IsHTTPService(svc) THEN "mismatch"
    ELSE IF Type(svc) = HTTPServiceType THEN "http_find" ELSE "unsupported"

\* switch service.Type() { case HTTPServiceType: httpService, ok := service.(HTTPService) ...
Dispatch(svc) ==
    IF Type(svc) = HTTPServiceType
      THEN IF IsHTTPService(svc) THEN "http_find" ELSE "mismatch"
      ELSE "unsupported"

VMSwitch(t) ==
    /\ pc[t] = "vm_switch"
    /\ LET svc == local[t].arg.svc
           d == Dispatch(svc)
           type == Call("Type", "", Type(svc))
       IN  CASE d = "http_find" ->
                  VMStep(t, "http_find", <<type>>, NilError)
             [] d = "mismatch" ->
                  VMStep(t, "starter_done", <<type>>,
                         ErrorsNew("service claims to be HTTP but does not implement HTTPService interface"))
             [] OTHER ->
                  VMStep(t, "starter_done", <<type, type>>,
                         Errorf("unsupported service type for VM platform: %s", Type(svc)))

(* ------------------ VMServiceStarter.startHTTPService ----------------- *)
FindEngineOrDefault(deps) ==
    IF \E i \in DOMAIN deps : IsEngine(deps[i])
      THEN deps[CHOOSE i \in DOMAIN deps : IsEngine(deps[i]) /\ \A j \in 1..(i - 1) : ~IsEngine(deps[j])]
      ELSE "e1"

FindEngineLast(deps) ==
    IF \E i \in DOMAIN deps : IsEngine(deps[i])
      THEN deps[CHOOSE i \in DOMAIN deps : IsEngine(deps[i]) /\ \A j \in (i + 1)..Len(deps) : ~IsEngine(deps[j])]
      ELSE NoEngine

\* for _, dep := range deps { if eng, ok := dep.(Engine); ok { engine = eng; break } }
RECURSIVE FindEngine(_)
FindEngine(deps) ==
    IF deps = <<>> THEN NoEngine
    ELSE IF IsEngine(Head(deps)) THEN Head(deps)
    ELSE FindEngine(Tail(deps))

HTTPFindEngineWatching(t) ==
    /\ pc[t] = "http_find"
    /\ LET engine == FindEngine(local[t].arg.deps)
       IN  /\ calls' = [calls EXCEPT ![t] =
                          @ \o <<Call("setupSignalHandling", local[t].arg.ctx, ""),
                                 Log("info", "Setting up HTTP service")>>]
           /\ watchers' = Append(watchers, [ctx |-> local[t].arg.ctx, sig |-> FALSE,
                                            state |-> "waiting", cancelled |-> FALSE])
           /\ IF engine = NoEngine
                THEN /\ local' = [local EXCEPT ![t].ret =
                            ErrorsNew("engine not found in dependencies for HTTP service")]
                     /\ pc' = [pc EXCEPT ![t] = "starter_done"]
                ELSE /\ local' = [local EXCEPT ![t].engine = engine]
                     /\ pc' = [pc EXCEPT ![t] = "http_cfg"]
    /\ UNCHANGED <<registry, wHolder, wActive, readers, op, result,
                   ctxDone, lastReg, ws, wsRead>>

HTTPFindEngine(t) ==
    /\ pc[t] = "http_find"
    /\ LET engine == FindEngine(local[t].arg.deps)
       IN  /\ calls' = [calls EXCEPT ![t] = Append(@, Log("info", "Setting up HTTP service"))]
           /\ IF engine = NoEngine
                THEN /\ local' = [local EXCEPT ![t].ret =
                            ErrorsNew("engine not found in dependencies for HTTP service")]
                     /\ pc' = [pc EXCEPT ![t] = "starter_done"]
                ELSE /\ local' = [local EXCEPT ![t].engine = engine]
                     /\ pc' = [pc EXCEPT ![t] = "http_cfg"]
    /\ UNCHANGED <<registry, wHolder, wActive, readers, op, result, watchers,
                   ctxDone, lastReg, ws, wsRead>>

AfterConfigureRoutesIgnoringError(r) == "http_sig"

\* if err := service.ConfigureRoutes(ctx, engine); err != nil { ... return ... }
AfterConfigureRoutes(r) == IF r # NilError THEN "starter_done" ELSE "http_sig"

ConfigureRoutesFailed(r) ==
    IF r # NilError THEN ErrorfWrap("failed to configure routes: %w", r) ELSE NilError

HTTPConfigureRoutes(t) ==
    /\ pc[t] = "http_cfg"
    /\ \E r \in {NilError, ErrorsNew("configure error")} :
          VMStep(t, AfterConfigureRoutes(r),
                 <<Log("info", "Configuring HTTP routes"),
                   Call("ConfigureRoutes", local[t].engine, r.msg)>>
                 \o (IF r # NilError
                       THEN <<Log("error", "Failed to configure routes")>> ELSE <<>>),
                 ConfigureRoutesFailed(r))

\* setupSignalHandling: ctx, cancel := context.WithCancel(ctx); sigChan (buffer 1);
\* signal.Notify(sigChan, SIGINT, SIGTERM); go func() { select ... }()
NewWatcher(ctx) == [ctx |-> ctx, sig |-> FALSE, state |-> "waiting", cancelled |-> FALSE]

HTTPSetupSignalHandling(t) ==
    /\ pc[t] = "http_sig"
    /\ watchers' = Append(watchers, NewWatcher(local[t].arg.ctx))
    /\ calls' = [calls EXCEPT ![t] = Append(@, Call("setupSignalHandling", local[t].arg.ctx, ""))]
    /\ pc' = [pc EXCEPT ![t] = "http_run"]
    /\ UNCHANGED <<registry, wHolder, wActive, readers, op, local, result,
                   ctxDone, lastReg, ws, wsRead>>

HTTPRunDetached(t) ==
    /\ pc[t] = "http_run"
    /\ VMStep(t, "starter_done",
              <<Log("info", "Starting HTTP server"), Call("Run", local[t].engine, "")>>,
              NilError)

\* v.logger.Info("Starting HTTP server"); engine.Run() is entered and blocks
HTTPRun(t) ==
    /\ pc[t] = "http_run"
    /\ VMStep(t, "run_blocked",
              <<Log("info", "Starting HTTP server"), Call("Run", local[t].engine, "")>>,
              NilError)

RunResultAlwaysWrapped(r) == ErrorfWrap("engine run failed: %w", r)

RunResultWrapped(r) ==
    IF r = NilError THEN r ELSE ErrorfWrap("engine run failed: %w", r)

\* return engine.Run()
RunResult(r) == r

HTTPRunReturnsStopping(t) ==
    /\ pc[t] = "run_blocked"
    /\ \E r \in RunResults :
          /\ calls' = [calls EXCEPT ![t] = Append(@, Call("Run.return", local[t].engine, r.msg))]
          /\ local' = [local EXCEPT ![t].ret = r]
    /\ pc' = [pc EXCEPT ![t] = "starter_done"]
    /\ watchers' = [watchers EXCEPT ![Len(watchers)].cancelled = TRUE]
    /\ UNCHANGED <<registry, wHolder, wActive, readers, op, result, ctxDone, lastReg,
                   ws, wsRead>>

\* engine.Run() returns
HTTPRunReturns(t) ==
    /\ pc[t] = "run_blocked"
    /\ \E r \in RunResults :
          VMStep(t, "starter_done", <<Call("Run.return", local[t].engine, r.msg)>>,
                 RunResult(r))

(* ------------------- the package-level launcher ----------------------- *)
\* init(): logger, err := zap.NewProduction(); panic on err; then
\* RegisterPlatform(platform.VM, platform.NewVMServiceStarter(logger)) with the
\* local logger.
PkgInit(t) ==
    /\ pc[t] = "pkg_init"
    /\ \E zap \in ZapResults :
          IF zap = ZapOk
            THEN /\ op' = [op EXCEPT ![t] =
                             [NoOp EXCEPT !.name = "RegisterPlatform", !.l = Pkg, !.p = VM,
                                          !.s = NewVMServiceStarter("logger", zap)]]
                 /\ pc' = [pc EXCEPT ![t] = "reg_lock"]
            ELSE /\ op' = op
                 /\ pc' = [pc EXCEPT ![t] = "panic"]
    /\ UNCHANGED <<registry, wHolder, wActive, readers, local, calls, result,
                   watchers, ctxDone, lastReg, ws, wsRead>>

\* The package-level RegisterPlatform under registryMu: it logs through the
\* package-level logger, so Warn (entry exists) or Info (after the write)
\* dereferences a nil *zap.Logger when that logger is nil.
PkgRegBody(t) ==
    /\ pc[t] = "reg_body"
    /\ op[t].l = Pkg
    /\ IF PkgLogger # NoLogger
         THEN /\ calls' = [calls EXCEPT ![t] = @ \o RegisterLogs(registry[Pkg], op[t].p)]
              /\ registry' = [registry EXCEPT ![Pkg] = RegistryPut(@, op[t].p, op[t].s)]
              /\ pc' = [pc EXCEPT ![t] = "reg_unlock"]
         ELSE IF registry[Pkg][op[t].p] # NoStarter
                THEN /\ UNCHANGED <<calls, registry>>
                     /\ pc' = [pc EXCEPT ![t] = "reg_panic"]
                ELSE /\ calls' = [calls EXCEPT ![t] = Append(@, Call("put", op[t].p, ""))]
                     /\ registry' = [registry EXCEPT ![Pkg] = RegistryPut(@, op[t].p, op[t].s)]
                     /\ pc' = [pc EXCEPT ![t] = "reg_panic"]
    /\ UNCHANGED <<wHolder, wActive, readers, op, local, result, watchers,
                   ctxDone, lastReg, ws, wsRead>>

\* The panic unwinds through the deferred registryMu.Unlock() and ends the
\* process: nothing recovers a panic raised in init().
PkgUnwind(t) ==
    /\ pc[t] = "reg_panic"
    /\ wHolder' = [wHolder EXCEPT ![op[t].l] = NoTask]
    /\ wActive' = [wActive EXCEPT ![op[t].l] = FALSE]
    /\ pc' = [pc EXCEPT ![t] = "panic"]
    /\ UNCHANGED <<registry, readers, op, local, calls, result, watchers,
                   ctxDone, lastReg, ws, wsRead>>

(* ---------------- the function-style launcher and StartVM ------------- *)
\* What an ApiService's methods may return: ConstructService an error or nil;
\* SetupEngine any engine (the one it was given or another, nil included)
\* with a nil error, or a nil engine with an error.
ConstructServiceResults == {NilError, ErrorsNew("construct services error")}
SetupEngineResults ==
    {[eng |-> e, err |-> NilError] : e \in Engines \cup {NoEngine}}
    \cup {[eng |-> NoEngine, err |-> ErrorsNew("setup engine error")]}

\* launcher.Start(service, platformType, engine, deps...)
CallLegacyStart(t, svc, p, engine) ==
    Begin(t, [NoOp EXCEPT !.name = "LegacyStart", !.svc = svc, !.p = p,
                          !.engine = engine],
          "legacy_switch")

\* platform.StartVM(service, engine, deps...)
CallStartVM(t, svc, engine) ==
    Begin(t, [NoOp EXCEPT !.name = "StartVM", !.svc = svc, !.engine = engine],
          "startvm_entry")

LegacyStep(t, newpc, newcalls, ret) ==
    /\ calls' = [calls EXCEPT ![t] = @ \o newcalls]
    /\ local' = [local EXCEPT ![t].ret = ret]
    /\ pc' = [pc EXCEPT ![t] = newpc]
    /\ UNCHANGED <<registry, wHolder, wActive, readers, op, result, watchers,
                   ctxDone, lastReg, ws, wsRead>>

LegacyDispatchAlways(p) == "startvm_entry"

\* switch platformType { case "virtual_machine": ... default: ... }
LegacyDispatch(p) == IF p = "virtual_machine" THEN "startvm_entry" ELSE "ret"

LegacySwitch(t) ==
    /\ pc[t] = "legacy_switch"
    /\ IF LegacyDispatch(op[t].p) = "startvm_entry"
         THEN LegacyStep(t, "startvm_entry", <<Call("StartVM", op[t].engine, "")>>, NilError)
         ELSE LegacyStep(t, "ret", <<Log("printf", "unsupported platform type %s")>>, NilError)

\* if engine == nil { return errors.New("engine is nil") }
StartVMEntry(t) ==
    /\ pc[t] = "startvm_entry"
    /\ IF op[t].engine = NoEngine
         THEN LegacyStep(t, "startvm_done", <<>>, ErrorsNew("engine is nil"))
         ELSE LegacyStep(t, "startvm_construct", <<>>, NilError)

AfterConstructServiceIgnoringError(r) == "startvm_setup"

\* err := service.ConstructService(ctx, deps); if err != nil { log; return err }
AfterConstructService(r) == IF r # NilError THEN "startvm_done" ELSE "startvm_setup"

StartVMConstruct(t) ==
    /\ pc[t] = "startvm_construct"
    /\ \E r \in ConstructServiceResults :
          LegacyStep(t, AfterConstructService(r),
                     <<Call("ConstructService", "", r.msg)>>
                     \o (IF r # NilError THEN <<Log("printf", "Error: %s")>> ELSE <<>>),
                     r)

\* eng, err := service.SetupEngine(engine); if err != nil { log; return err }
StartVMSetup(t) ==
    /\ pc[t] = "startvm_setup"
    /\ \E r \in SetupEngineResults :
          /\ calls' = [calls EXCEPT ![t] =
                         @ \o <<Call("SetupEngine", op[t].engine, r.err.msg),
                                Call("SetupEngine.return", r.eng, r.err.msg)>>
                           \o (IF r.err # NilError THEN <<Log("printf", "Error: %s")>> ELSE <<>>)]
          /\ local' = [local EXCEPT ![t].ret = r.err, ![t].engine = r.eng]
          /\ pc' = [pc EXCEPT ![t] = IF r.err # NilError THEN "startvm_done" ELSE "startvm_run"]
    /\ UNCHANGED <<registry, wHolder, wActive, readers, op, result, watchers,
                   ctxDone, lastReg, ws, wsRead>>

\* return eng.Run(): entered on the engine SetupEngine returned; on a nil
\* interface value the call is a nil dereference, a panic.
StartVMRun(t) ==
    /\ pc[t] = "startvm_run"
    /\ IF local[t].engine = NoEngine
         THEN LegacyStep(t, "panic", <<>>, NilError)
         ELSE LegacyStep(t, "startvm_blocked", <<Call("Run", local[t].engine, "")>>, NilError)

StartVMRunReturns(t) ==
    /\ pc[t] = "startvm_blocked"
    /\ \E r \in RunResults :
          LegacyStep(t, "startvm_done", <<Call("Run.return", local[t].engine, r.msg)>>, r)

\* StartVM returns its error to its caller; launcher.Start has no result:
\* if err != nil { log.Printf("failed to start vm: %s", err.Error()) }
StartVMReturn(t) ==
    /\ pc[t] = "startvm_done"
    /\ IF op[t].name = "StartVM"
         THEN /\ result' = [result EXCEPT ![t].err = local[t].ret]
              /\ calls' = calls
         ELSE /\ result' = result
              /\ calls' = [calls EXCEPT ![t] =
                             @ \o <<Call("StartVM.return", "", local[t].ret.msg)>>
                               \o (IF local[t].ret # NilError
                                     THEN <<Log("printf", "failed to start vm: %s")>>
                                     ELSE <<>>)]
    /\ pc' = [pc EXCEPT ![t] = "ret"]
    /\ UNCHANGED <<registry, wHolder, wActive, readers, op, local, watchers,
                   ctxDone, lastReg, ws, wsRead>>

(* ------------------------ network.MockWebSocket ----------------------- *)
\* Writes still to come from calls in progress, and room for k more.
WritesToCome(u) ==
    CASE pc[u] \in {"ws_lock", "ws_body"}
           /\ op[u].name \in {"WriteMessage", "WriteControl"} -> 1
      [] pc[u] \in {"send_write_lock", "send_write_body"} -> 2
      [] pc[u] \in {"send_write_done", "send_control_lock", "send_control_body"} -> 1
      [] OTHER -> 0
WriteRoom(k) ==
    Len(ws.Writes) + WritesToCome("t1") + WritesToCome("t2") + k <= MaxWrites

CallWriteMessage(t, type, data) ==
    /\ WriteRoom(1)
    /\ Begin(t, [NoOp EXCEPT !.name = "WriteMessage",
                             !.msg = Message(type, data, "WriteMessage")], "ws_lock")

CallWriteControl(t, type, data) ==
    /\ WriteRoom(1)
    /\ Begin(t, [NoOp EXCEPT !.name = "WriteControl",
                             !.msg = Message(type, data, "WriteControl")], "ws_lock")

CallReadMessage(t) == Begin(t, [NoOp EXCEPT !.name = "ReadMessage"], "ws_lock")

CallClose(t) == Begin(t, [NoOp EXCEPT !.name = "Close"], "ws_lock")

CallSetError(t, method, err) ==
    Begin(t, [NoOp EXCEPT !.name = "SetError", !.method = method, !.inject = err],
          "ws_lock")

CallClearError(t, method) ==
    Begin(t, [NoOp EXCEPT !.name = "ClearError", !.method = method], "ws_lock")

\* json.Marshal(WSMessage{Event: "error", Data: ErrorResponse{...}}) for status
\* 500 and the details of errors.New(StandardErrorMessage).
InternalErrorText == "{event:error,data:{title:Internal Server Error,status:500,detail:internal error}}"
\* websocket.FormatCloseMessage(websocket.CloseInternalServerErr, "Internal Server Error")
CloseFrame == "1011 Internal Server Error"

\* The method call a task is in: one of SendWSInternalServerErrorAndClose's
\* three, or the one it made itself.
CurrentCall(t) ==
    CASE pc[t] \in {"send_write_lock", "send_write_body"} ->
           [method |-> "WriteMessage",
            msg |-> Message(TextMessage, InternalErrorText, "WriteMessage")]
      [] pc[t] \in {"send_control_lock", "send_control_body"} ->
           [method |-> "WriteControl",
            msg |-> Message(CloseMessage, CloseFrame, "WriteControl")]
      [] pc[t] \in {"send_close_lock", "send_close_body"} ->
           [method |-> "Close", msg |-> NoMessage]
      [] OTHER -> [method |-> op[t].name, msg |-> op[t].msg]

\* m.mu.Lock()
WSLock(t) ==
    /\ pc[t] \in {"ws_lock", "send_write_lock", "send_control_lock", "send_close_lock"}
    /\ ws.mu = NoTask
    /\ ws' = [ws EXCEPT !.mu = t]
    /\ pc' = [pc EXCEPT ![t] = CASE @ = "ws_lock" -> "ws_body"
                                  [] @ = "send_write_lock" -> "send_write_body"
                                  [] @ = "send_control_lock" -> "send_control_body"
                                  [] @ = "send_close_lock" -> "send_close_body"]
    /\ UNCHANGED <<registry, wHolder, wActive, readers, op, local, calls, result,
                   watchers, ctxDone, lastReg, wsRead>>

\* The rest of a method under the mutex, to its return and the deferred
\* m.mu.Unlock(): the mock becomes w, the method returns ret (and data).
WSBody(t, method, w, data, ret) ==
    /\ pc[t] \in {"ws_body", "send_write_body", "send_control_body", "send_close_body"}
    /\ CurrentCall(t).method = method
    /\ ws' = [w EXCEPT !.mu = NoTask]
    /\ calls' = [calls EXCEPT ![t] = Append(@, Call(method, data, ret.msg))]
    /\ local' = [local EXCEPT ![t].ret = ret]
    /\ result' = [result EXCEPT ![t].err = IF pc[t] = "ws_body" THEN ret ELSE @]
    /\ pc' = [pc EXCEPT ![t] = CASE @ = "ws_body" -> "ret"
                                  [] @ = "send_write_body" -> "send_write_done"
                                  [] @ = "send_control_body" -> "send_control_done"
                                  [] @ = "send_close_body" -> "send_close_done"]
    /\ UNCHANGED <<registry, wHolder, wActive, readers, op, watchers, ctxDone, lastReg>>

\* if err, ok := m.Errors[method]; ok { return err }
Injected(method) == ws.Errors[method] # NoEntry

\* m.Messages = append(m.Messages, msg); m.Writes = append(m.Writes, msg);
\* m.TimesWritten++
WriteMessageBody(t) ==
    /\ IF Injected("WriteMessage")
         THEN WSBody(t, "WriteMessage", ws, CurrentCall(t).msg.Data, ws.Errors["WriteMessage"])
         ELSE WSBody(t, "WriteMessage",
                     [ws EXCEPT !.Messages = Append(@, CurrentCall(t).msg),
                                !.Writes = Append(@, CurrentCall(t).msg),
                                !.TimesWritten = @ + 1],
                     CurrentCall(t).msg.Data, NilError)
    /\ UNCHANGED wsRead

WriteControlEffectQueued(w, msg) ==
    [w EXCEPT !.Messages = Append(@, msg), !.Writes = Append(@, msg),
              !.TimesWritten = @ + 1]

\* m.Writes = append(m.Writes, msg); m.TimesWritten++
WriteControlEffect(w, msg) ==
    [w EXCEPT !.Writes = Append(@, msg), !.TimesWritten = @ + 1]

WriteControlBody(t) ==
    /\ IF Injected("WriteControl")
         THEN WSBody(t, "WriteControl", ws, CurrentCall(t).msg.Data, ws.Errors["WriteControl"])
         ELSE WSBody(t, "WriteControl", WriteControlEffect(ws, CurrentCall(t).msg),
                     CurrentCall(t).msg.Data, NilError)
    /\ UNCHANGED wsRead

\* message := m.Messages[0]; m.Messages = m.Messages[1:]; an empty queue
\* returns (0, nil, nil). wsRead is history: the messages returned so far.
ReadMessageBody(t) ==
    IF Injected("ReadMessage")
      THEN /\ WSBody(t, "ReadMessage", ws, NoMessage.Data, ws.Errors["ReadMessage"])
           /\ UNCHANGED wsRead
      ELSE IF Len(ws.Messages) = 0
        THEN /\ WSBody(t, "ReadMessage", ws, NoMessage.Data, NilError)
             /\ UNCHANGED wsRead
        ELSE /\ WSBody(t, "ReadMessage", [ws EXCEPT !.Messages = Tail(@)],
                       Head(ws.Messages).Data, NilError)
             /\ wsRead' = Append(wsRead, Head(ws.Messages))

\* if err, ok := m.Errors["Close"]; ok { return err }; m.Closed = true
CloseBody(t) ==
    /\ WSBody(t, "Close",
              IF Injected("Close") THEN ws ELSE [ws EXCEPT !.Closed = TRUE], "",
              IF Injected("Close") THEN ws.Errors["Close"] ELSE NilError)
    /\ UNCHANGED wsRead

\* m.Errors[method] = err
SetErrorBody(t) ==
    /\ WSBody(t, "SetError", [ws EXCEPT !.Errors[op[t].method] = op[t].inject],
              op[t].method, NilError)
    /\ UNCHANGED wsRead

\* delete(m.Errors, method)
ClearErrorBody(t) ==
    /\ WSBody(t, "ClearError", [ws EXCEPT !.Errors[op[t].method] = NoEntry],
              op[t].method, NilError)
    /\ UNCHANGED wsRead

(* ------------------ SendWSInternalServerErrorAndClose ----------------- *)
\* An option is a func(*Response); the ones here set Error or leave it.
OptionLists == {<<>>, <<"setError">>, <<"setContents">>}

RECURSIVE ApplyOptions(_, _)
\* for _, o := range options { o(response) }
ApplyOptions(err, options) ==
    IF options = <<>> THEN err
    ELSE ApplyOptions(CASE Head(options) = "setError" -> ErrorsNew("custom error")
                        [] Head(options) = "newOpts" -> ErrorsNew("internal error")
                        [] OTHER -> err,
                      Tail(options))

\* SendWSInternalServerError appends newOpts to the options; SendWSErrorResponse
\* applies them and puts errors.New(StandardErrorMessage) for a nil Error.
ResponseError(options) ==
    LET e == ApplyOptions(NilError, Append(options, "newOpts"))
    IN  IF e = NilError THEN ErrorsNew("internal error") ELSE e

CallSendWSInternalServerErrorAndClose(t, options) ==
    /\ WriteRoom(2)
    /\ Begin(t, [NoOp EXCEPT !.name = "SendWSInternalServerErrorAndClose",
                             !.options = options], "send_write_lock")

SendStep(t, at, newpc, newlocal, err) ==
    /\ pc[t] = at
    /\ pc' = [pc EXCEPT ![t] = newpc]
    /\ local' = [local EXCEPT ![t] = newlocal]
    /\ result' = [result EXCEPT ![t].err = err]
    /\ UNCHANGED <<registry, wHolder, wActive, readers, op, calls, watchers,
                   ctxDone, lastReg, ws, wsRead>>

\* SendWSErrorResponse: err := ws.WriteMessage(...); if err != nil { return err };
\* return response.Error
SendWriteDone(t) ==
    SendStep(t, "send_write_done", "send_control_lock",
             [local[t] EXCEPT !.sendErr = IF local[t].ret # NilError
                                            THEN local[t].ret
                                            ELSE ResponseError(op[t].options)],
             NilError)

AfterWriteControlIgnoringError(closeErr) == "send_close_lock"

\* closeErr = ws.WriteControl(...); if closeErr != nil { return closeErr }
AfterWriteControl(closeErr) == IF closeErr # NilError THEN "ret" ELSE "send_close_lock"

SendControlDone(t) ==
    SendStep(t, "send_control_done", AfterWriteControl(local[t].ret), local[t],
             local[t].ret)

\* closeErr = ws.Close(); if closeErr != nil { return closeErr }; return sendErr
SendCloseDone(t) ==
    SendStep(t, "send_close_done", "ret", local[t],
             IF local[t].ret # NilError THEN local[t].ret ELSE local[t].sendErr)

(* ------------------ signal watcher and its environment ---------------- *)
\* The child context of watcher w is done once cancel() ran or its parent is done.
ChildDone(w) == w.cancelled \/ ctxDone[w.ctx]

\* The process receives SIGINT or SIGTERM: signal.Notify's channels get it; a
\* channel whose one-slot buffer is full misses it.
Notify(w) == [w EXCEPT !.sig = TRUE]

DeliverSignal ==
    /\ \E i \in 1..Len(watchers) : ~watchers[i].sig
    /\ watchers' = [i \in 1..Len(watchers) |-> Notify(watchers[i])]
    /\ UNCHANGED <<registry, wHolder, wActive, readers, pc, op, local, calls,
                   result, ctxDone, lastReg, ws, wsRead>>

\* The owner of a cancellable context cancels it.
CancelContext(c) ==
    /\ c # Background
    /\ ~ctxDone[c]
    /\ ctxDone' = [ctxDone EXCEPT ![c] = TRUE]
    /\ UNCHANGED <<registry, wHolder, wActive, readers, pc, op, local, calls,
                   result, watchers, lastReg, ws, wsRead>>

OnSignalNoCancel(w) == [w EXCEPT !.sig = FALSE, !.state = "signalled"]

\* case sig := <-sigChan: log; cancel()
OnSignal(w) == [w EXCEPT !.sig = FALSE, !.cancelled = TRUE, !.state = "signalled"]

WatcherSignal(i) ==
    /\ watchers[i].state = "waiting"
    /\ watchers[i].sig
    /\ watchers' = [watchers EXCEPT ![i] = OnSignal(@)]
    /\ UNCHANGED <<registry, wHolder, wActive, readers, pc, op, local, calls,
                   result, ctxDone, lastReg, ws, wsRead>>

OnContextDoneCancels(w) == [w EXCEPT !.state = "ctxdone", !.cancelled = TRUE]

\* case <-ctx.Done(): log
OnContextDone(w) == [w EXCEPT !.state = "ctxdone"]

WatcherContextDone(i) ==
    /\ watchers[i].state = "waiting"
    /\ ChildDone(watchers[i])
    /\ watchers' = [watchers EXCEPT ![i] = OnContextDone(@)]
    /\ UNCHANGED <<registry, wHolder, wActive, readers, pc, op, local, calls,
                   result, ctxDone, lastReg, ws, wsRead>>

(* --------------------------- specifications --------------------------- *)
TaskStep(t) ==
    \/ RegLock(t) \/ RegLocked(t) \/ RegBody(t) \/ RegUnlock(t)
    \/ GetRLock(t) \/ GetRead(t) \/ GetReturn(t)
    \/ StartRLock(t) \/ StartRead(t) \/ StartRUnlock(t) \/ StartCheck(t)
    \/ Delegate(t) \/ MockStart(t) \/ StarterReturn(t)
    \/ VMEntry(t) \/ VMInitialize(t) \/ VMSwitch(t)
    \/ HTTPFindEngine(t) \/ HTTPConfigureRoutes(t) \/ HTTPSetupSignalHandling(t)
    \/ HTTPRun(t) \/ HTTPRunReturns(t)

TaskCall(t, Ls, Cs) ==
    \/ \E l \in Ls, p \in Platforms, s \in Starters : CallRegisterPlatform(t, l, p, s)
    \/ \E l \in Ls, p \in Platforms : CallGetPlatformStarter(t, l, p)
    \/ \E l \in Ls, c \in Cs, svc \in Services, p \in Platforms, d \in DepLists :
          CallStart(t, l, c, svc, p, d)

Environment ==
    \/ DeliverSignal
    \/ \E c \in Contexts : CancelContext(c)
    \/ \E i \in 1..Len(watchers) : WatcherSignal(i)
    \/ \E i \in 1..Len(watchers) : WatcherContextDone(i)

\* One caller, one launcher, the background context: the operations run one
\* after the other, and no signal arrives.
Next ==
    \/ \E t \in SeqTasks : TaskCall(t, SeqLaunchers, {Background})
    \/ \E t \in SeqTasks : TaskStep(t)

Spec == Init /\ [][Next]_vars

\* The calls of a task, with their arguments drawn from the given sets.
TaskCallOf(t, Ls, Ps, Ss, Cs, Svcs, Ds) ==
    \/ \E l \in Ls, p \in Ps, s \in Ss : CallRegisterPlatform(t, l, p, s)
    \/ \E l \in Ls, p \in Ps : CallGetPlatformStarter(t, l, p)
    \/ \E l \in Ls, c \in Cs, svc \in Svcs, p \in Ps, d \in Ds :
          CallStart(t, l, c, svc, p, d)

\* Several goroutines on one launcher, their steps interleaved in any order.
ConcStarters == {VMStarter, "mockA"}
ConcServices == {"httpSvc"}
ConcDeps == {<<"e1">>}

NextConc ==
    \/ \E t \in Tasks :
          TaskCallOf(t, SeqLaunchers, Platforms, ConcStarters, {Background},
                     ConcServices, ConcDeps)
    \/ \E t \in Tasks : TaskStep(t)

SpecConc == Init /\ [][NextConc]_vars

\* One caller whose contexts may be cancelled, a process that may receive
\* SIGINT or SIGTERM at any time, and the watcher goroutines.
SignalStarters == {VMStarter, "mockA"}
SignalServices == {"httpSvc", "worker"}
SignalDeps == {<<>>, <<"e1">>}

NextSignal ==
    \/ \E t \in SeqTasks :
          TaskCallOf(t, SeqLaunchers, {VM}, SignalStarters, Contexts,
                     SignalServices, SignalDeps)
    \/ \E t \in SeqTasks : TaskStep(t)
    \/ Environment

SpecSignal == Init /\ [][NextSignal]_vars

\* One caller using two ServiceLauncher instances, one call after the other.
NextTwo ==
    \/ \E t \in SeqTasks :
          TaskCallOf(t, Launchers, Platforms, ConcStarters, {Background},
                     ConcServices, ConcDeps)
    \/ \E t \in SeqTasks : TaskStep(t)

SpecTwo == Init /\ [][NextTwo]_vars

\* One caller starting HTTP services with every list of deps, nil values
\* included; one more element than DepLists, so that a nil value and two
\* engines fit in one list.
NextDeps ==
    \/ \E t \in SeqTasks :
          TaskCallOf(t, SeqLaunchers, {VM}, SignalStarters, {Background},
                     ConcServices,
                     SeqsUpTo(DepValues \cup {NilDep}, MaxDeps + 1))
    \/ \E t \in SeqTasks : TaskStep(t)

SpecDeps == Init /\ [][NextDeps]_vars

\* Two callers of one launcher on the VM platform, where a Start may stay in
\* Engine.Run for ever. The scheduler runs every goroutine that can run, and
\* sync.RWMutex hands the lock to a goroutine that keeps waiting for it
\* (starvation mode; readers queued behind a writer are released by its
\* Unlock); nothing makes Engine.Run return.
NextBusy ==
    \/ \E t \in Tasks :
          TaskCallOf(t, SeqLaunchers, {VM}, ConcStarters, {Background},
                     ConcServices, ConcDeps)
    \/ \E t \in Tasks : TaskStep(t)

LockSection(t) ==
    \/ RegLocked(t) \/ RegBody(t) \/ RegUnlock(t)
    \/ GetRead(t) \/ GetReturn(t)
    \/ StartRead(t) \/ StartRUnlock(t)

FairBusy ==
    \A t \in Tasks :
       /\ WF_vars(LockSection(t))
       /\ SF_vars(RegLock(t)) /\ SF_vars(GetRLock(t))

SpecBusy == Init /\ [][NextBusy]_vars /\ FairBusy

\* One caller of the function-style launcher and of StartVM.
NextLegacy ==
    \/ \E t \in SeqTasks, svc \in {"ginSvc", "otherSvc"}, p \in Platforms,
             e \in Engines \cup {NoEngine} :
          CallLegacyStart(t, svc, p, e)
    \/ \E t \in SeqTasks, svc \in {"ginSvc", "otherSvc"}, e \in Engines \cup {NoEngine} :
          CallStartVM(t, svc, e)
    \/ \E t \in SeqTasks :
          \/ LegacySwitch(t) \/ StartVMEntry(t) \/ StartVMConstruct(t)
          \/ StartVMSetup(t) \/ StartVMRun(t) \/ StartVMRunReturns(t)
          \/ StartVMReturn(t)

SpecLegacy == Init /\ [][NextLegacy]_vars

\* Two tasks sharing one MockWebSocket: both write and read messages, and
\* the first also writes control messages, closes, and injects and clears
\* errors.
WSOwners == {"t1"}

NextWS ==
    \/ \E t \in Tasks, d \in {"m1", "m2"} : CallWriteMessage(t, TextMessage, d)
    \/ \E t \in WSOwners, d \in {"m1"} : CallWriteControl(t, TextMessage, d)
    \/ \E t \in Tasks : CallReadMessage(t)
    \/ \E t \in WSOwners : CallClose(t)
    \/ \E t \in WSOwners, m \in WSMethods, e \in {ErrorsNew("mock error")} : CallSetError(t, m, e)
    \/ \E t \in WSOwners, m \in WSMethods : CallClearError(t, m)
    \/ \E t \in Tasks :
          \/ WSLock(t)
          \/ WriteMessageBody(t) \/ WriteControlBody(t) \/ ReadMessageBody(t)
          \/ CloseBody(t) \/ SetErrorBody(t) \/ ClearErrorBody(t)

SpecWS == Init /\ [][NextWS]_vars

\* One task that injects and clears errors on a MockWebSocket and sends the
\* internal server error over it.
NextSend ==
    \/ \E t \in SeqTasks, m \in WSMethods, e \in {ErrorsNew("mock error")} : CallSetError(t, m, e)
    \/ \E t \in SeqTasks, m \in WSMethods : CallClearError(t, m)
    \/ \E t \in SeqTasks, o \in OptionLists : CallSendWSInternalServerErrorAndClose(t, o)
    \/ \E t \in SeqTasks :
          \/ WSLock(t)
          \/ WriteMessageBody(t) \/ WriteControlBody(t) \/ CloseBody(t)
          \/ SetErrorBody(t) \/ ClearErrorBody(t)
          \/ SendWriteDone(t) \/ SendControlDone(t) \/ SendCloseDone(t)

SpecSend == Init /\ [][NextSend]_vars

\* A program from its start: one that imports the package-level launcher runs
\* that package's init() before main, one that uses a ServiceLauncher goes
\* straight to its calls, registering starters built by NewVMServiceStarter.
InitProgram == Fresh /\ pc \in [Tasks -> {"pkg_init", "idle"}] /\ pc["t2"] = "idle"

BuiltStarters == {NewVMServiceStarter(lg, zap) : lg \in {NoLogger, "logger"}, zap \in ZapResults}

NextProgram ==
    \/ \E t \in SeqTasks :
          TaskCallOf(t, SeqLaunchers, {VM}, BuiltStarters \cup {"mockA"}, {Background},
                     SignalServices, SignalDeps)
    \/ \E t \in SeqTasks : TaskStep(t)
    \/ \E t \in SeqTasks : PkgInit(t) \/ PkgRegBody(t) \/ PkgUnwind(t)

SpecProgram == InitProgram /\ [][NextProgram]_vars

(* ======================= properties of the code ======================= *)
Has(seq, name) == \E i \in DOMAIN seq : seq[i].op = name
Count(seq, name) == Cardinality({i \in DOMAIN seq : seq[i].op = name})
Failed(seq, name) == \E i \in DOMAIN seq : seq[i].op = name /\ seq[i].ret # "nil"
Succeeded(seq, name) == \E i \in DOMAIN seq : seq[i].op = name /\ seq[i].ret = "nil"

\* The calls made by the VMServiceStarter.Start invocation of task t, if any.
InVMStart(t) ==
    /\ local[t].vmFrom > 0
    /\ calls[t][local[t].vmFrom - 1] = Call("Starter.Start", VMStarter, "")
VMCalls(t) == IF InVMStart(t)
                THEN SubSeq(calls[t], local[t].vmFrom, Len(calls[t])) ELSE <<>>

\* The Service and Engine methods among a list of calls, in order.
IsMethod(c) == c.op \in {"Type", "Initialize", "ConfigureRoutes", "Run"}
Methods(seq) == SelectSeq(seq, IsMethod)
IsStep(c) == c.op \in {"Initialize", "ConfigureRoutes", "setupSignalHandling", "Run"}
Steps(seq) == SelectSeq(seq, IsStep)

IsGet(t) == op[t].name = "GetPlatformStarter"
IsStart(t) == op[t].name = "Start"
Entry(t) == registry[op[t].l][op[t].p]

\* C1: after RegisterPlatform(P, A) and then RegisterPlatform(P, B) have
\* completed, GetPlatformStarter(P) returns B, the starter of the last completed
\* registration of P, with no error, and never an earlier one; the registry
\* holds one starter per platform.
C1_OverrideWins ==
    /\ \A l \in Launchers : registry[l] \in [Platforms -> Starters \cup {NoStarter}]
    /\ \A t \in Tasks :
          (IsGet(t) /\ Returned(t) /\ lastReg[op[t].l][op[t].p] # NoStarter)
          => result[t] = [starter |-> lastReg[op[t].l][op[t].p], err |-> NilError]

\* virtual_machine, registered with the VM starter by NewServiceLauncher, was
\* registered again, last with mockB, and GetPlatformStarter(virtual_machine)
\* has returned mockB.
C1_Witness ==
    /\ IsGet("t1") /\ Returned("t1") /\ op["t1"].p = VM
    /\ lastReg["L1"][VM] = "mockB"
    /\ result["t1"].starter = "mockB"

\* C2: for a platform with no entry in the registry, GetPlatformStarter returns
\* a nil starter and an error, and Start returns the unsupported-platform error
\* having called nothing: no Service method, no Starter, no log.
C2_UnknownPlatform ==
    \A t \in Tasks :
       Entry(t) = NoStarter =>
          /\ (IsGet(t) /\ Returned(t)) =>
                /\ result[t].starter = NoStarter
                /\ result[t].err = Errorf("no starter registered for platform: %s", op[t].p)
          /\ IsStart(t) => calls[t] = <<>>
          /\ (IsStart(t) /\ Returned(t)) =>
                result[t].err = Errorf("unsupported platform type: %s", op[t].p)

C2_Witness ==
    /\ IsStart("t1") /\ Returned("t1") /\ Entry("t1") = NoStarter
    /\ result["t1"].err.msg = "unsupported platform type: %s"

\* C3: in a VMServiceStarter.Start invocation whose Service.Initialize returned
\* an error, ConfigureRoutes, setupSignalHandling and Engine.Run are never
\* called, and Start returns "failed to initialize service" wrapping that error.
C3_InitializeGates ==
    \A t \in Tasks :
       Failed(VMCalls(t), "Initialize") =>
          /\ ~Has(VMCalls(t), "ConfigureRoutes")
          /\ ~Has(VMCalls(t), "setupSignalHandling")
          /\ ~Has(VMCalls(t), "Run")
          /\ Returned(t) =>
                \E i \in DOMAIN VMCalls(t) :
                   /\ VMCalls(t)[i].op = "Initialize"
                   /\ result[t].err = [msg |-> "failed to initialize service: %w",
                                       arg |-> "", cause |-> VMCalls(t)[i].ret]

\* Start has returned after Initialize failed, for an HTTP service given an engine.
C3_Witness ==
    /\ Returned("t1") /\ Failed(VMCalls("t1"), "Initialize")
    /\ op["t1"].svc = "httpSvc" /\ FindEngine(op["t1"].deps) # NoEngine
    /\ result["t1"].err.cause = "initialize error"

\* C4: Initialize is the first Service method VMServiceStarter.Start calls, and
\* when Initialize fails Type() is not called at all in that invocation.
C4_InitializeFirst ==
    \A t \in Tasks :
       /\ Methods(VMCalls(t)) # <<>> => Head(Methods(VMCalls(t))).op = "Initialize"
       /\ Failed(VMCalls(t), "Initialize") => ~Has(VMCalls(t), "Type")

\* C5: with an HTTP service of kind "http", an engine in deps, and Initialize,
\* ConfigureRoutes and Run all returning nil, Start has called Initialize,
\* ConfigureRoutes and Run once each, in that order, on the engine found in
\* deps, and returns nil.
AllSucceeded(seq) == \A i \in DOMAIN seq : seq[i].op \in {"Initialize", "ConfigureRoutes", "Run.return"}
                                             => seq[i].ret = "nil"
IsCallOrReturn(c) == c.op \in {"Initialize", "ConfigureRoutes", "Run", "Run.return"}

C5_HappyPath ==
    \A t \in Tasks :
       (/\ Returned(t) /\ InVMStart(t)
        /\ local[t].arg.svc = "httpSvc"
        /\ FindEngine(local[t].arg.deps) # NoEngine
        /\ AllSucceeded(VMCalls(t)))
       => /\ SelectSeq(VMCalls(t), IsCallOrReturn) =
                <<Call("Initialize", "", "nil"),
                  Call("ConfigureRoutes", FindEngine(local[t].arg.deps), "nil"),
                  Call("Run", FindEngine(local[t].arg.deps), ""),
                  Call("Run.return", FindEngine(local[t].arg.deps), "nil")>>
          /\ result[t].err = NilError

C5_Witness ==
    /\ Returned("t1") /\ InVMStart("t1")
    /\ local["t1"].arg.svc = "httpSvc"
    /\ local["t1"].arg.deps = <<"logger", "e2">>
    /\ AllSucceeded(VMCalls("t1"))
    /\ Count(VMCalls("t1"), "Run.return") = 1
    /\ result["t1"].err = NilError

\* C6: once ConfigureRoutes has returned an error, Engine.Run is never called
\* and Start returns "failed to configure routes" wrapping that error; every
\* Engine.Run call comes after a successful ConfigureRoutes on the same engine.
C6_RouteConfigurationGates ==
    \A t \in Tasks :
       /\ Failed(VMCalls(t), "ConfigureRoutes") =>
             /\ ~Has(VMCalls(t), "Run")
             /\ Returned(t) =>
                   \E i \in DOMAIN VMCalls(t) :
                      /\ VMCalls(t)[i].op = "ConfigureRoutes"
                      /\ result[t].err = [msg |-> "failed to configure routes: %w",
                                          arg |-> "", cause |-> VMCalls(t)[i].ret]
       /\ \A j \in DOMAIN calls[t] :
             calls[t][j].op = "Run" =>
                \E i \in 1..(j - 1) :
                   calls[t][i] = Call("ConfigureRoutes", calls[t][j].arg, "nil")

C6_Witness ==
    /\ Returned("t1") /\ Failed(VMCalls("t1"), "ConfigureRoutes")
    /\ result["t1"].err.cause = "configure error"

\* C7: a service of kind "http" that does not implement HTTPService makes
\* Start return the interface-mismatch error once Initialize has succeeded;
\* ConfigureRoutes and Engine.Run are never called, whatever deps holds.
C7_CapabilityMismatch ==
    \A t \in Tasks :
       (InVMStart(t) /\ local[t].arg.svc = "fakeHttp") =>
          /\ ~Has(VMCalls(t), "ConfigureRoutes")
          /\ ~Has(VMCalls(t), "Run")
          /\ (Returned(t) /\ Succeeded(VMCalls(t), "Initialize")) =>
                result[t].err =
                   ErrorsNew("service claims to be HTTP but does not implement HTTPService interface")

C7_Witness ==
    /\ Returned("t1") /\ InVMStart("t1") /\ local["t1"].arg.svc = "fakeHttp"
    /\ FindEngine(local["t1"].arg.deps) # NoEngine
    /\ Succeeded(VMCalls("t1"), "Initialize")
    /\ result["t1"].err.msg = "service claims to be HTTP but does not implement HTTPService interface"

\* C8: for an HTTP service of kind "http" and deps without any Engine (empty
\* deps included), ConfigureRoutes is never called, and Start, once Initialize
\* has succeeded, returns the engine-not-found error.
NoEngineIn(deps) == \A i \in DOMAIN deps : deps[i] \notin Engines

C8_EngineMissing ==
    \A t \in Tasks :
       (InVMStart(t) /\ local[t].arg.svc = "httpSvc" /\ NoEngineIn(local[t].arg.deps)) =>
          /\ ~Has(VMCalls(t), "ConfigureRoutes")
          /\ ~Has(VMCalls(t), "Run")
          /\ (Returned(t) /\ Succeeded(VMCalls(t), "Initialize")) =>
                result[t].err = ErrorsNew("engine not found in dependencies for HTTP service")

C8_Witness ==
    /\ Returned("t1") /\ InVMStart("t1") /\ local["t1"].arg.svc = "httpSvc"
    /\ local["t1"].arg.deps = <<"logger">>
    /\ result["t1"].err.msg = "engine not found in dependencies for HTTP service"

\* C9: for a service whose Type() is not "http", the invocation calls
\* Initialize once and never reaches startHTTPService, ConfigureRoutes,
\* setupSignalHandling or Engine.Run; once Initialize has succeeded Start
\* returns the unsupported-service-type error naming the kind.
C9_UnsupportedKind ==
    \A t \in Tasks :
       (InVMStart(t) /\ Type(local[t].arg.svc) # HTTPServiceType) =>
          /\ Steps(VMCalls(t)) \in {<<>>, <<Call("Initialize", "", "nil")>>,
                                    <<Call("Initialize", "", "initialize error")>>}
          /\ Log("info", "Setting up HTTP service") \notin {VMCalls(t)[i] : i \in DOMAIN VMCalls(t)}
          /\ Returned(t) => Count(VMCalls(t), "Initialize") = 1
          /\ (Returned(t) /\ Succeeded(VMCalls(t), "Initialize")) =>
                result[t].err = Errorf("unsupported service type for VM platform: %s",
                                       Type(local[t].arg.svc))

C9_Witness ==
    /\ Returned("t1") /\ InVMStart("t1") /\ local["t1"].arg.svc = "workerRoutes"
    /\ FindEngine(local["t1"].arg.deps) # NoEngine
    /\ result["t1"].err = Errorf("unsupported service type for VM platform: %s", "worker")

\* C10: when the platform is registered, Start calls exactly one starter, the
\* one registered for the platform, once, with the context, service and deps it
\* was given, and returns what that starter returned.
C10_PassThrough ==
    \A t \in Tasks :
       (IsStart(t) /\ Returned(t) /\ lastReg[op[t].l][op[t].p] # NoStarter) =>
          /\ Count(calls[t], "Starter.Start") = 1
          /\ \E i \in DOMAIN calls[t] :
                calls[t][i] = Call("Starter.Start", lastReg[op[t].l][op[t].p], "")
          /\ local[t].arg = [ctx |-> op[t].ctx, svc |-> op[t].svc, deps |-> op[t].deps]
          /\ result[t].err = local[t].ret

\* mockB, registered for docker, was started with two deps and failed.
C10_Witness ==
    /\ IsStart("t1") /\ Returned("t1") /\ op["t1"].p = "docker"
    /\ lastReg["L1"]["docker"] = "mockB"
    /\ op["t1"].deps = <<"e1", "logger">>
    /\ result["t1"].err = ErrorsNew("failed to start service")

IsLookup(t) == op[t].name \in LookupOps
HasRead(t) == pc[t] \notin {"idle", "get_rlock", "get_read", "start_rlock", "start_read"}
IsRegister(t) == op[t].name = "RegisterPlatform"

\* C11: under any interleaving, a GetPlatformStarter(P) or Start(..., P) that
\* begins after a RegisterPlatform(P, s) has returned finds an entry for P, and
\* the starter it finds is s or one written for P since the lookup began (or
\* written by a registration still running when it began).
C11_RegisterVisible ==
    \A t \in Tasks :
       (IsLookup(t) /\ HasRead(t) /\ local[t].before # NoStarter) =>
          /\ local[t].ok
          /\ local[t].starter \in {local[t].before} \cup local[t].later
          /\ (IsGet(t) /\ Returned(t)) =>
                /\ result[t].err = NilError
                /\ result[t].starter \in {local[t].before} \cup local[t].later
          /\ (IsStart(t) /\ Returned(t)) =>
                result[t].err.msg # "unsupported platform type: %s"

\* A lookup of docker began when mockA was its registered starter and
\* returned VMServiceStarter, which another task registered meanwhile.
C11_Witness ==
    /\ IsGet("t1") /\ Returned("t1") /\ op["t1"].p = "docker"
    /\ local["t1"].before = "mockA"
    /\ result["t1"].starter = VMStarter
    /\ IsRegister("t2")

\* C12: registrations running concurrently for distinct platforms lose nothing:
\* whenever no RegisterPlatform of P is between its write and its return, the
\* map holds for P the starter of the last RegisterPlatform(P, _) that returned;
\* and a lookup of P with no registration of P around it returns that starter.
C12_NothingLost ==
    /\ \A l \in Launchers, p \in Platforms :
          WrittenNotReturned(l, p) = {} => registry[l][p] = lastReg[l][p]
    /\ \A t \in Tasks :
          (IsGet(t) /\ Returned(t) /\ local[t].before # NoStarter /\ local[t].later = {})
          => result[t] = [starter |-> local[t].before, err |-> NilError]

\* Both platforms were registered by callers; one lookup has returned its
\* platform's starter while the other, for the other platform, holds the read lock.
C12_Witness ==
    /\ lastReg["L1"]["docker"] = VMStarter /\ lastReg["L1"][VM] = "mockA"
    /\ IsGet("t1") /\ Returned("t1") /\ op["t1"].p = "docker"
    /\ result["t1"].starter = VMStarter
    /\ IsGet("t2") /\ pc["t2"] = "get_return" /\ op["t2"].p = VM
    /\ "t2" \in readers["L1"] /\ local["t2"].starter = "mockA"

\* C16: RegisterPlatform(P, s) logs the override warning exactly when P had an
\* entry when the call got the exclusive lock; the warning comes before the
\* write, the write always happens, and the confirmation is logged after it.
C16_OverrideObservable ==
    \A t \in Tasks :
       IsRegister(t) =>
          /\ pc[t] = "reg_unlock" =>
                /\ calls[t] =
                      (IF lastReg[op[t].l][op[t].p] # NoStarter
                         THEN <<Log("warn", "Overriding existing platform starter")>>
                         ELSE <<>>)
                      \o <<Call("put", op[t].p, ""),
                           Log("info", "Registered platform starter")>>
                /\ registry[op[t].l][op[t].p] = op[t].s
          /\ Returned(t) =>
                /\ Count(calls[t], "put") = 1
                /\ calls[t][Len(calls[t])] = Log("info", "Registered platform starter")

\* docker, registered before with mockA, is being registered with VMServiceStarter
\* while the other task waits for the lock: the warning was logged.
C16_Witness ==
    /\ IsRegister("t1") /\ pc["t1"] = "reg_unlock" /\ op["t1"].p = "docker"
    /\ lastReg["L1"]["docker"] = "mockA" /\ op["t1"].s = VMStarter
    /\ Has(calls["t1"], "put")
    /\ calls["t1"][1] = Log("warn", "Overriding existing platform starter")
    /\ pc["t2"] = "reg_lock"

\* C13: once a watcher has received SIGINT or SIGTERM and called cancel(), the
\* context that Start was given, the one the Service and the Engine can read,
\* is done.
C13_SignalCancelsGivenContext ==
    \A i \in 1..Len(watchers) :
       watchers[i].state = "signalled" => ctxDone[watchers[i].ctx]

\* C14: a Start invocation that has called Engine.Run stays blocked in it until
\* Run returns: whatever signals arrive and whatever contexts are cancelled, it
\* is past Run only with Run's return as its last call, and it returns what
\* Run returned.
C14_BlocksOnEngine ==
    \A t \in Tasks :
       Has(calls[t], "Run") =>
          \/ pc[t] = "run_blocked" /\ ~Has(calls[t], "Run.return")
          \/ /\ pc[t] \in {"starter_done", "ret"}
             /\ calls[t][Len(calls[t])].op = "Run.return"
             /\ Returned(t) => result[t].err.msg = calls[t][Len(calls[t])].ret

\* Start is still blocked in Run although its watcher handled a signal and its
\* context was cancelled.
C14_Witness ==
    /\ pc["t1"] = "run_blocked" /\ op["t1"].ctx = "ctx1" /\ ctxDone["ctx1"]
    /\ Len(watchers) = 1 /\ watchers[1].state = "signalled"

\* The VMServiceStarter.Start invocations that returned after Engine.Run did.
RunReturned(t) ==
    /\ Returned(t) /\ InVMStart(t)
    /\ Has(VMCalls(t), "Run.return")
RunRet(t) == calls[t][Len(calls[t])].ret

\* C15 as stated: when Engine.Run returns an error e, Start returns an error
\* of its own that wraps e, keeping e as its cause; when Run returns cleanly,
\* Start returns nil.
C15_RunFailureWrapped ==
    \A t \in Tasks :
       RunReturned(t) =>
          IF RunRet(t) = "nil"
          THEN result[t].err = NilError
          ELSE result[t].err.msg # RunRet(t) /\ result[t].err.cause = RunRet(t)

\* C15 amended: when Engine.Run returns an error e, Start returns e itself,
\* with no wrapping and no message of its own; when Run returns cleanly, Start
\* returns nil.
C15_RunFailureReturnedAsIs ==
    \A t \in Tasks :
       RunReturned(t) =>
          IF RunRet(t) = "nil"
          THEN result[t].err = NilError
          ELSE result[t].err = ErrorsNew(RunRet(t))

\* Engine.Run returned "run error" and Start returned exactly that error.
C15_Witness ==
    /\ RunReturned("t1") /\ RunRet("t1") = "run error"
    /\ result["t1"].err = ErrorsNew("run error")

\* C17: a step changes the map of a registry only as the write of a
\* RegisterPlatform call on that very launcher, so calls on one ServiceLauncher
\* leave the other's map and the package-level map as they were; and a lookup
\* through a launcher returns what was last registered on that launcher, not
\* what was registered on the other.
C17_RegistriesIndependent ==
    /\ [][\A r \in Registries :
             registry'[r] # registry[r] =>
                \E t \in Tasks : /\ IsRegister(t) /\ op[t].l = r
                                 /\ pc[t] = "reg_body" /\ pc'[t] = "reg_unlock"]_vars
    /\ [](\A t \in Tasks :
             Returned(t) /\ IsGet(t) =>
                result[t].starter = lastReg[op[t].l][op[t].p])
    /\ [](registry[Pkg] = EmptyRegistry)

\* docker was registered on L1 only: a lookup of docker through L2 finds nothing.
C17_Witness ==
    /\ registry["L1"]["docker"] = "mockA"
    /\ registry["L2"]["docker"] = NoStarter
    /\ Returned("t1") /\ IsGet("t1")
    /\ op["t1"].l = "L2" /\ op["t1"].p = "docker"
    /\ result["t1"].starter = NoStarter
    /\ result["t1"].err = Errorf("no starter registered for platform: %s", "docker")

\* The invocations that reached Start on a starter built by NewVMServiceStarter.
InBuiltStart(t) ==
    /\ local[t].vmFrom > 0
    /\ calls[t][local[t].vmFrom - 1].op = "Starter.Start"
    /\ calls[t][local[t].vmFrom - 1].arg \in BuiltStarters

\* C18: every starter NewVMServiceStarter returns has a usable logger, also
\* when the fallback logger could not be built, so a Start on such a starter
\* never crashes and goes on to Initialize.
C18_FallbackLoggerDegrades ==
    \A t \in Tasks :
       InBuiltStart(t) =>
          /\ HasLogger(calls[t][local[t].vmFrom - 1].arg)
          /\ pc[t] # "panic"

\* C19: once the package's init() has registered the VM starter in the
\* package-level registry, the package-level logger is usable and the
\* initialisation has not crashed, so that main can go on to launcher.Start.
C19_PackageLauncherReady ==
    \A t \in Tasks :
       (IsRegister(t) /\ op[t].l = Pkg /\ registry[Pkg][VM] = VMStarter)
          => pc[t] \notin {"reg_panic", "panic"}

\* The value a call of the given name returned in a list of calls.
RetOf(seq, name) == seq[CHOOSE i \in DOMAIN seq : seq[i].op = name].ret
StepNames(seq) == [i \in DOMAIN Steps(seq) |-> Steps(seq)[i].op]
Outcome(kind, err, steps) == [kind |-> kind, err |-> err, steps |-> steps]

\* The kind of failure a caller reads off the error Start returned.
KindOf(err) ==
    CASE err = NilError -> "success"
      [] err.msg = "failed to initialize service: %w" -> "InitializationFailed"
      [] err.msg = "unsupported service type for VM platform: %s" -> "UnsupportedServiceKind"
      [] err.msg = "service claims to be HTTP but does not implement HTTPService interface"
            -> "ServiceKindMismatch"
      [] err.msg = "engine not found in dependencies for HTTP service" -> "EngineNotFound"
      [] err.msg = "failed to configure routes: %w" -> "RouteConfigurationFailed"
      [] OTHER -> "run failure"

\* The result and the steps the fixed check order prescribes for a returned
\* invocation, from its arguments and from what its calls returned.
OrderedOutcome(t) ==
    LET c == VMCalls(t)
        svc == local[t].arg.svc
        deps == local[t].arg.deps
    IN  IF Failed(c, "Initialize")
          THEN Outcome("InitializationFailed", Error("failed to initialize service: %w", "", RetOf(c, "Initialize")),
                       <<"Initialize">>)
        ELSE IF Type(svc) # HTTPServiceType
          THEN Outcome("UnsupportedServiceKind", Error("unsupported service type for VM platform: %s", Type(svc), ""),
                       <<"Initialize">>)
        ELSE IF ~IsHTTPService(svc)
          THEN Outcome("ServiceKindMismatch", Error("service claims to be HTTP but does not implement HTTPService interface", "", ""),
                       <<"Initialize">>)
        ELSE IF NoEngineIn(deps)
          THEN Outcome("EngineNotFound", Error("engine not found in dependencies for HTTP service", "", ""),
                       <<"Initialize">>)
        ELSE IF Failed(c, "ConfigureRoutes")
          THEN Outcome("RouteConfigurationFailed", Error("failed to configure routes: %w", "", RetOf(c, "ConfigureRoutes")),
                       <<"Initialize", "ConfigureRoutes">>)
        ELSE IF Failed(c, "Run.return")
          THEN Outcome("run failure", Error(RetOf(c, "Run.return"), "", ""),
                       <<"Initialize", "ConfigureRoutes", "setupSignalHandling", "Run">>)
        ELSE Outcome("success", NilError,
                     <<"Initialize", "ConfigureRoutes", "setupSignalHandling", "Run">>)

\* C20: a returned VMServiceStarter.Start has the result of the first failing
\* check in the order Initialize, kind, capability, engine, ConfigureRoutes,
\* Run (nil when none fails), it ran the steps up to that check and none after
\* it, and the result alone tells which check failed.
C20_CheckOrder ==
    \A t \in Tasks :
       (Returned(t) /\ InVMStart(t)) =>
          /\ result[t].err = OrderedOutcome(t).err
          /\ StepNames(VMCalls(t)) = OrderedOutcome(t).steps
          /\ Count(VMCalls(t), "Type") > 1 => ~Failed(VMCalls(t), "Initialize")
          /\ KindOf(result[t].err) = OrderedOutcome(t).kind

\* A non-http service without HTTP capability, started with empty deps, is
\* refused for its kind, not for the missing engine.
C20_Witness ==
    /\ Returned("t1") /\ InVMStart("t1")
    /\ local["t1"].arg.svc = "worker" /\ local["t1"].arg.deps = <<>>
    /\ result["t1"].err = Errorf("unsupported service type for VM platform: %s", Type("worker"))
    /\ StepNames(VMCalls("t1")) = <<"Initialize">>

\* What one step does to a watcher that was there before it.
WatcherStays(w, v) == v.state = w.state /\ v.cancelled = w.cancelled
WatcherTakesSignal(w, v) ==
    /\ w.state = "waiting" /\ w.sig
    /\ v = [w EXCEPT !.state = "signalled", !.sig = FALSE, !.cancelled = TRUE]
WatcherSeesDone(w, v) ==
    /\ w.state = "waiting" /\ ChildDone(w)
    /\ v = [w EXCEPT !.state = "ctxdone"]

\* C21: a watcher waits until a signal is in its channel or its context is
\* done; it then either takes the signal and cancels its child context, or,
\* on the context being done, exits without cancelling; after that it does
\* nothing more (it takes at most one signal), and its step changes neither a
\* registry nor any task's calls on the service and the engine.
C21_WatcherProtocol ==
    /\ [][/\ Len(watchers') >= Len(watchers)
          /\ \A i \in 1..Len(watchers) :
                \/ WatcherStays(watchers[i], watchers'[i])
                \/ /\ \/ WatcherTakesSignal(watchers[i], watchers'[i])
                      \/ WatcherSeesDone(watchers[i], watchers'[i])
                   /\ UNCHANGED <<registry, wHolder, wActive, readers, pc, op,
                                  local, calls, result, ctxDone, lastReg>>]_vars
    /\ [](\A i \in 1..Len(watchers) :
             /\ watchers[i].state \in {"waiting", "signalled", "ctxdone"}
             /\ watchers[i].cancelled <=> watchers[i].state = "signalled")

\* One watcher exited on its cancelled context without calling cancel (the
\* signal that came later stays unread in its channel), the other took that
\* signal and cancelled its child context.
C21_Witness ==
    /\ Len(watchers) = 2
    /\ watchers[1] = [ctx |-> "ctx1", sig |-> TRUE, state |-> "ctxdone", cancelled |-> FALSE]
    /\ watchers[2] = [ctx |-> Background, sig |-> FALSE, state |-> "signalled", cancelled |-> TRUE]

\* The place of the first call of the given name in a list of calls.
Pos(seq, name) == CHOOSE i \in DOMAIN seq : seq[i].op = name
\* The invocations that entered startHTTPService.
EnteredHTTP(t) ==
    /\ InVMStart(t)
    /\ \E i \in DOMAIN VMCalls(t) : VMCalls(t)[i] = Log("info", "Setting up HTTP service")

\* C22: a watcher is created only by an invocation whose last call was a
\* successful ConfigureRoutes and that has not called Run yet; every Run comes
\* after the watcher's creation, and an invocation that returned
\* engine-not-found or a route-configuration failure created no watcher.
C22_SignalHandlingIsStepD ==
    /\ [][Len(watchers') # Len(watchers) =>
             \E t \in Tasks :
                /\ pc[t] = "http_sig" /\ pc'[t] = "http_run"
                /\ watchers' = Append(watchers, NewWatcher(local[t].arg.ctx))
                /\ calls[t][Len(calls[t])] = Call("ConfigureRoutes", local[t].engine, "nil")
                /\ ~Has(calls[t], "Run")]_vars
    /\ [](\A t \in Tasks :
             InVMStart(t) =>
                /\ Has(VMCalls(t), "Run") =>
                      /\ Has(VMCalls(t), "setupSignalHandling")
                      /\ Pos(VMCalls(t), "setupSignalHandling") < Pos(VMCalls(t), "Run")
                /\ Has(VMCalls(t), "setupSignalHandling") =>
                      Pos(VMCalls(t), "ConfigureRoutes") < Pos(VMCalls(t), "setupSignalHandling")
                /\ (Returned(t) /\ KindOf(result[t].err) \in {"EngineNotFound", "RouteConfigurationFailed"})
                      => ~Has(VMCalls(t), "setupSignalHandling"))

\* Routes are configured, the watcher was just created, Run is not called yet.
C22_Witness ==
    /\ pc["t1"] = "http_run" /\ InVMStart("t1")
    /\ Len(watchers) = 1
    /\ Succeeded(VMCalls("t1"), "ConfigureRoutes")
    /\ VMCalls("t1")[Len(VMCalls("t1"))].op = "setupSignalHandling"
    /\ ~Has(VMCalls("t1"), "Run")

\* C23 as stated: every invocation that entered the HTTP path has created its
\* watcher, before any ConfigureRoutes call.
C23_WatcherOnEntry ==
    \A t \in Tasks :
       EnteredHTTP(t) =>
          /\ Has(VMCalls(t), "setupSignalHandling")
          /\ Has(VMCalls(t), "ConfigureRoutes") =>
                Pos(VMCalls(t), "setupSignalHandling") < Pos(VMCalls(t), "ConfigureRoutes")

\* C23 amended: an invocation that entered the HTTP path has created a watcher
\* exactly when it found an engine, ConfigureRoutes succeeded and it went on
\* towards Run; it creates at most one, and none on entry.
C23_WatcherAfterRoutes ==
    \A t \in Tasks :
       EnteredHTTP(t) =>
          /\ Has(VMCalls(t), "setupSignalHandling") <=>
                (/\ FindEngine(local[t].arg.deps) # NoEngine
                 /\ Succeeded(VMCalls(t), "ConfigureRoutes")
                 /\ pc[t] # "http_sig")
          /\ Count(VMCalls(t), "setupSignalHandling") <= 1

\* An invocation entered the HTTP path, ConfigureRoutes failed, and it
\* returned without ever creating a watcher.
C23_Witness ==
    /\ Returned("t1") /\ EnteredHTTP("t1")
    /\ Failed(VMCalls("t1"), "ConfigureRoutes")
    /\ ~Has(VMCalls("t1"), "setupSignalHandling")
    /\ Len(watchers) = 0

\* The Engine values of deps, in their order.
EngineSeq(deps) == SelectSeq(deps, IsEngine)
IsEngineCall(c) == c.op \in {"ConfigureRoutes", "Run", "Run.return"}

\* C24: every ConfigureRoutes and Run of an invocation is on the first Engine
\* of deps in order, whatever non-Engine or nil values stand before, between
\* or after the engines; no later Engine of deps is configured or run.
C24_EngineSelection ==
    \A t \in Tasks :
       InVMStart(t) =>
          \A i \in DOMAIN VMCalls(t) :
             IsEngineCall(VMCalls(t)[i]) =>
                /\ EngineSeq(local[t].arg.deps) # <<>>
                /\ VMCalls(t)[i].arg = Head(EngineSeq(local[t].arg.deps))
                /\ local[t].engine = Head(EngineSeq(local[t].arg.deps))

\* A nil value and two engines in deps: the first engine was configured and
\* run, the second never.
C24_Witness ==
    /\ Returned("t1") /\ InVMStart("t1")
    /\ local["t1"].arg.deps = <<NilDep, "e2", "e1">>
    /\ SelectSeq(VMCalls("t1"), IsEngineCall) =
          <<Call("ConfigureRoutes", "e2", "nil"), Call("Run", "e2", ""),
            Call("Run.return", "e2", "nil")>>

\* The positions at which a task holds the read lock.
ReadSection == {"get_read", "get_return", "start_read", "start_runlock"}
InRegistryOp(t) == (IsRegister(t) \/ IsGet(t)) /\ ~CanCall(t)

\* C25: a task holds the read lock only between its RLock and its RUnlock,
\* never while it is in Starter.Start; and every RegisterPlatform and
\* GetPlatformStarter call that has begun returns, also while Start calls on
\* the same launcher stay blocked in Engine.Run.
C25_RegistryNeverWaitsOnService ==
    /\ [](\A t \in Tasks, l \in Launchers :
             t \in readers[l] => pc[t] \in ReadSection /\ op[t].l = l)
    /\ \A t \in Tasks : InRegistryOp(t) ~> Returned(t)

\* A RegisterPlatform that began while the other task's Start was blocked in
\* Engine.Run has returned, and that Start is still blocked.
C25_Witness ==
    /\ pc["t1"] = "run_blocked"
    /\ IsRegister("t2") /\ Returned("t2") /\ local["t2"].during = {"t1"}

\* The tasks holding the exclusive lock of a launcher, and the positions at
\* which a task reads or writes the map.
Writers(l) == {t \in Tasks : op[t].l = l /\ pc[t] \in {"reg_body", "reg_unlock"}}
MapReadAt == {"get_read", "start_read"}
MapWriteAt == {"reg_body"}

\* C26: the lock of a launcher is held by nobody, by one writer and no reader,
\* or by readers only; a task about to read the map holds the read lock with
\* no writer in, a task about to write it is the one writer; and a task that
\* has returned, on whatever path, holds nothing (nor does a task in
\* Starter.Start).
C26_LockDiscipline ==
    \A l \in Launchers :
       /\ Cardinality(Writers(l)) <= 1
       /\ wActive[l] <=> Writers(l) # {}
       /\ wActive[l] => readers[l] = {} /\ Writers(l) = {wHolder[l]}
       /\ \A t \in Tasks :
             /\ (pc[t] \in MapReadAt /\ op[t].l = l) => t \in readers[l] /\ ~wActive[l]
             /\ (pc[t] \in MapWriteAt /\ op[t].l = l) => Writers(l) = {t} /\ readers[l] = {}
             /\ t \in readers[l] => pc[t] \in ReadSection /\ op[t].l = l
             /\ wHolder[l] = t => pc[t] \in {"reg_wait", "reg_body", "reg_unlock"} /\ op[t].l = l

\* A Start has returned on its unknown-platform path and holds nothing; the
\* lock is held by the other task alone, as a reader.
C26_Witness ==
    /\ IsStart("t1") /\ Returned("t1")
    /\ result["t1"].err = Errorf("unsupported platform type: %s", "docker")
    /\ readers["L1"] = {"t2"} /\ wHolder["L1"] = NoTask /\ ~wActive["L1"]

\* C27: no step removes an entry, and only the write of a RegisterPlatform
\* changes a map (Start and GetPlatformStarter never do); so a
\* GetPlatformStarter(P) that begins when P was registered succeeds.
C27_EntriesNeverRemoved ==
    /\ [][\A l \in Launchers, p \in Platforms :
             /\ registry[l][p] # NoStarter => registry'[l][p] # NoStarter
             /\ registry'[l][p] # registry[l][p] =>
                   \E t \in Tasks : /\ IsRegister(t) /\ pc[t] \in MapWriteAt
                                    /\ op[t].l = l /\ op[t].p = p
                                    /\ registry'[l][p] = op[t].s]_vars
    /\ [](\A t \in Tasks :
             (IsGet(t) /\ Returned(t) /\ local[t].before # NoStarter)
                => result[t].err = NilError /\ result[t].starter # NoStarter)

\* docker was registered; a Start on it failed in its starter; the entry is
\* still there and a lookup that began after the registration returned it.
C27_Witness ==
    /\ IsStart("t1") /\ Returned("t1") /\ op["t1"].p = "docker"
    /\ result["t1"].err = ErrorsNew("failed to start service")
    /\ registry["L1"]["docker"] = "mockA"
    /\ IsGet("t2") /\ Returned("t2") /\ op["t2"].p = "docker"
    /\ local["t2"].before = "mockA" /\ result["t2"].starter = "mockA"

\* The starter calls a Start invocation has made.
StarterCalls(t) == SelectSeq(calls[t], LAMBDA c : c.op = "Starter.Start")

\* C28: a Start calls at most one starter, once: the one the map held for P
\* while the Start had the read lock, which is the entry from before the call
\* or one written since; a registration that writes P after that changes
\* neither the starter called nor the calls already made.
C28_StartRacesOverride ==
    \A t \in Tasks :
       IsStart(t) =>
          /\ Len(StarterCalls(t)) <= 1
          /\ pc[t] = "start_runlock" => local[t].starter = registry[op[t].l][op[t].p]
          /\ \A i \in DOMAIN StarterCalls(t) :
                /\ StarterCalls(t)[i].arg = local[t].starter
                /\ local[t].starter \in {local[t].before} \cup local[t].later

\* The Start read the VM starter and is running it; the override by the mock
\* completed afterwards and the map now holds the mock.
C28_Witness ==
    /\ IsStart("t1") /\ op["t1"].p = VM /\ pc["t1"] = "run_blocked"
    /\ StarterCalls("t1") = <<Call("Starter.Start", VMStarter, "")>>
    /\ local["t1"].before = VMStarter /\ local["t1"].later = {"mockA"}
    /\ IsRegister("t2") /\ Returned("t2") /\ op["t2"].p = VM /\ op["t2"].s = "mockA"
    /\ registry["L1"][VM] = "mockA"

\* The platforms a map has an entry for.
Keys(m) == {p \in DOMAIN m : m[p] # NoStarter}
NoCallYet == \A t \in Tasks : pc[t] = "idle"

\* C29: before any call, each launcher's map has the one key virtual_machine,
\* mapped to the VM starter; so no GetPlatformStarter(virtual_machine) fails
\* and no Start on virtual_machine is refused as unsupported, on either
\* launcher, and every RegisterPlatform(virtual_machine, s), the first
\* included, logs the override warning first.
C29_BuiltInRegistration ==
    /\ NoCallYet =>
          \A l \in Launchers : Keys(registry[l]) = {VM} /\ registry[l][VM] = VMStarter
    /\ \A l \in Launchers : VM \in Keys(registry[l])
    /\ \A t \in Tasks :
          /\ (IsGet(t) /\ Returned(t) /\ op[t].p = VM) =>
                result[t].err = NilError /\ result[t].starter # NoStarter
          /\ (IsStart(t) /\ Returned(t) /\ op[t].p = VM) =>
                result[t].err.msg # "unsupported platform type: %s"
          /\ (IsRegister(t) /\ Returned(t) /\ op[t].p = VM) =>
                calls[t] = <<Log("warn", "Overriding existing platform starter"),
                             Call("put", VM, ""),
                             Log("info", "Registered platform starter")>>

\* The first registration made on L2 was for virtual_machine, and it logged
\* the override warning.
C29_Witness ==
    /\ IsRegister("t1") /\ Returned("t1") /\ op["t1"].l = "L2" /\ op["t1"].p = VM
    /\ op["t1"].s = "mockA"
    /\ registry["L2"] = [p \in Platforms |-> IF p = VM THEN "mockA" ELSE NoStarter]
    /\ registry["L1"][VM] = VMStarter
    /\ calls["t1"][1] = Log("warn", "Overriding existing platform starter")

\* C30: an invocation that reached Engine.Run created one watcher; watchers
\* are never removed; no step of a task (the return of Run or of Start
\* included) changes a watcher that exists; a watcher stops waiting only when
\* a signal is in its channel or the context passed to Start is done, and its
\* child context is cancelled only on a signal; so with that context not done
\* and no signal a watcher is still waiting, whatever has returned since.
C30_WatcherLifetime ==
    /\ [][/\ Len(watchers') \in {Len(watchers), Len(watchers) + 1}
          /\ \A i \in 1..Len(watchers) :
                /\ watchers'[i] # watchers[i] => pc' = pc
                /\ (watchers[i].state = "waiting" /\ watchers'[i].state # "waiting")
                      => watchers[i].sig \/ ctxDone[watchers[i].ctx]
                /\ watchers'[i].cancelled # watchers[i].cancelled => watchers[i].sig]_vars
    /\ [](\A t \in Tasks :
             (InVMStart(t) /\ Has(VMCalls(t), "Run")) =>
                Count(VMCalls(t), "setupSignalHandling") = 1)
    /\ [](\A i \in 1..Len(watchers) :
             (~ctxDone[watchers[i].ctx] /\ ~watchers[i].sig /\ watchers[i].state # "signalled")
                => watchers[i].state = "waiting" /\ ~watchers[i].cancelled)

\* Two Starts have run and returned, the second with Run's error; no signal
\* came and no context was cancelled: both watchers are still waiting.
C30_Witness ==
    /\ Returned("t1") /\ InVMStart("t1")
    /\ result["t1"].err = ErrorsNew("run error")
    /\ \A c \in Contexts : ~ctxDone[c]
    /\ Len(watchers) = 2
    /\ \A i \in 1..2 : /\ watchers[i].state = "waiting" /\ ~watchers[i].sig
                       /\ ~watchers[i].cancelled

\* A watcher's goroutine has left its select; its child context is done.
Exited(w) == w.state # "waiting"
ChildContextDone(w) == w.cancelled \/ ctxDone[w.ctx]
BothPending(w) == w.state = "waiting" /\ w.sig /\ ctxDone[w.ctx]

\* C31: a watcher that has exited has its child context done; a child context
\* is done only if its watcher took a signal or the context passed to Start
\* is done; and a watcher with a signal and a cancellation both pending ends
\* exited with its child context done whichever case its select takes.
C31_ChildContext ==
    \A i \in 1..Len(watchers) :
       LET w == watchers[i]
       IN  /\ Exited(w) => ChildContextDone(w)
           /\ ChildContextDone(w) => w.state = "signalled" \/ ctxDone[w.ctx]
           /\ BothPending(w) =>
                 /\ Exited(OnSignal(w)) /\ ChildContextDone(OnSignal(w))
                 /\ Exited(OnContextDone(w)) /\ ChildContextDone(OnContextDone(w))

\* Two watchers on the same cancelled context, with a signal delivered: one
\* took the signal, the other the cancellation; both exited, both child
\* contexts done.
C31_Witness ==
    /\ Len(watchers) = 2 /\ ctxDone["ctx1"]
    /\ watchers[1].ctx = "ctx1" /\ watchers[1].state = "signalled"
    /\ watchers[2].ctx = "ctx1" /\ watchers[2].state = "ctxdone" /\ watchers[2].sig
    /\ ChildContextDone(watchers[1]) /\ ChildContextDone(watchers[2])

(* ---------------- the function-style launcher and StartVM ------------- *)
IsServiceCall(c) == c.op \in {"ConstructService", "SetupEngine", "Run"}
ServiceCalls(t) == SelectSeq(calls[t], IsServiceCall)
ServiceCallNames(t) == [i \in DOMAIN ServiceCalls(t) |-> ServiceCalls(t)[i].op]
\* An error value as it reads in a call record, a message or "nil".
Unchanged(err, ret) == err.msg = ret /\ err.arg = "" /\ err.cause = ""
StartVMReturned(t) == op[t].name = "StartVM" /\ pc[t] = "ret"
IsLog(c) == c.op = "log"

\* C32: a StartVM that has returned was given a nil engine, made no service
\* call and returned "engine is nil"; or it called ConstructService alone and
\* returned its error unchanged; or ConstructService and SetupEngine, in that
\* order, and returned SetupEngine's error unchanged; or ConstructService,
\* SetupEngine and Run, in that order and once each, Run on the engine
\* SetupEngine returned, and returned Run's result unchanged. A StartVM that
\* ended in a panic was handed a nil engine with a nil error by SetupEngine.
C32_StartVMSequence ==
    \A t \in Tasks :
        /\ StartVMReturned(t) =>
              LET names == ServiceCallNames(t)
                  err == result[t].err
              IN  IF op[t].engine = NoEngine
                  THEN names = <<>> /\ err = ErrorsNew("engine is nil")
                  ELSE \/ /\ names = <<"ConstructService">>
                          /\ err # NilError
                          /\ Unchanged(err, RetOf(calls[t], "ConstructService"))
                       \/ /\ names = <<"ConstructService", "SetupEngine">>
                          /\ RetOf(calls[t], "ConstructService") = "nil"
                          /\ err # NilError
                          /\ Unchanged(err, RetOf(calls[t], "SetupEngine"))
                       \/ /\ names = <<"ConstructService", "SetupEngine", "Run">>
                          /\ RetOf(calls[t], "ConstructService") = "nil"
                          /\ RetOf(calls[t], "SetupEngine") = "nil"
                          /\ ServiceCalls(t)[3].arg
                               = calls[t][Pos(calls[t], "SetupEngine.return")].arg
                          /\ Count(calls[t], "Run.return") = 1
                          /\ Unchanged(err, RetOf(calls[t], "Run.return"))
        /\ (op[t].name = "StartVM" /\ pc[t] = "panic") =>
              /\ ServiceCallNames(t) = <<"ConstructService", "SetupEngine">>
              /\ calls[t][Pos(calls[t], "SetupEngine.return")]
                   = Call("SetupEngine.return", NoEngine, "nil")

\* StartVM was given engine e1, SetupEngine returned e2, and Run, entered on
\* e2, returned "run error", which StartVM returned.
C32_Witness ==
    /\ StartVMReturned("t1")
    /\ op["t1"].engine = "e1"
    /\ ServiceCallNames("t1") = <<"ConstructService", "SetupEngine", "Run">>
    /\ ServiceCalls("t1")[3].arg = "e2"
    /\ result["t1"].err = ErrorsNew("run error")

LegacyReturned(t) == op[t].name = "LegacyStart" /\ pc[t] = "ret"

\* C33: a launcher.Start that has returned called StartVM exactly once when
\* the platform type was virtual_machine and never otherwise; for another
\* platform type it logged "unsupported platform type" and nothing else; when
\* StartVM returned an error it logged "failed to start vm" last and its
\* caller got no error; when StartVM returned nil it logged nothing.
C33_LegacyDispatch ==
    \A t \in Tasks :
        LegacyReturned(t) =>
            /\ Count(calls[t], "StartVM") = (IF op[t].p = "virtual_machine" THEN 1 ELSE 0)
            /\ result[t] = NoResult
            /\ op[t].p # "virtual_machine" =>
                  calls[t] = <<Log("printf", "unsupported platform type %s")>>
            /\ op[t].p = "virtual_machine" =>
                  /\ Count(calls[t], "StartVM.return") = 1
                  /\ calls[t][1].op = "StartVM"
                  /\ IF RetOf(calls[t], "StartVM.return") # "nil"
                     THEN /\ calls[t][Len(calls[t])] = Log("printf", "failed to start vm: %s")
                          /\ calls[t][Len(calls[t]) - 1].op = "StartVM.return"
                     ELSE SelectSeq(calls[t], IsLog) = <<>>

\* launcher.Start on virtual_machine whose StartVM failed in Run: the failure
\* is logged and the caller has no error.
C33_Witness ==
    /\ LegacyReturned("t1")
    /\ op["t1"].p = "virtual_machine"
    /\ Has(calls["t1"], "Run")
    /\ RetOf(calls["t1"], "StartVM.return") = "run error"
    /\ calls["t1"][Len(calls["t1"])] = Log("printf", "failed to start vm: %s")
    /\ result["t1"] = NoResult

(* ------------------ SendWSInternalServerErrorAndClose ----------------- *)
IsWSCall(c) == c.op \in {"WriteMessage", "WriteControl", "Close"}
WSCalls(t) == SelectSeq(calls[t], IsWSCall)
WSCallNames(t) == [i \in DOMAIN WSCalls(t) |-> WSCalls(t)[i].op]
SendReturned(t) == op[t].name = "SendWSInternalServerErrorAndClose" /\ pc[t] = "ret"

\* C34: a SendWSInternalServerErrorAndClose that has returned called
\* WriteMessage with the error text and then WriteControl with the close
\* frame, whatever WriteMessage returned; if WriteControl failed, it returned
\* that error and did not call Close; otherwise it called Close third, and
\* returned Close's error if Close failed, and else WriteMessage's error or,
\* when WriteMessage succeeded, "internal error". The error is never nil.
C34_ErrorAndClose ==
    \A t \in Tasks :
        SendReturned(t) =>
            LET c == WSCalls(t)
                err == result[t].err
            IN  /\ Len(c) >= 2
                /\ c[1].op = "WriteMessage" /\ c[1].arg = InternalErrorText
                /\ c[2].op = "WriteControl" /\ c[2].arg = CloseFrame
                /\ err # NilError
                /\ IF c[2].ret # "nil"
                     THEN Len(c) = 2 /\ Unchanged(err, c[2].ret)
                     ELSE /\ WSCallNames(t) = <<"WriteMessage", "WriteControl", "Close">>
                          /\ IF c[3].ret # "nil"
                               THEN Unchanged(err, c[3].ret)
                               ELSE IF c[1].ret # "nil"
                                 THEN Unchanged(err, c[1].ret)
                                 ELSE err = ErrorsNew("internal error")

\* WriteMessage failed, WriteControl and Close succeeded: the three calls were
\* made, the connection is closed, and WriteMessage's error is returned.
C34_Witness ==
    /\ SendReturned("t1")
    /\ WSCallNames("t1") = <<"WriteMessage", "WriteControl", "Close">>
    /\ WSCalls("t1")[1].ret = "mock error"
    /\ WSCalls("t1")[2].ret = "nil"
    /\ WSCalls("t1")[3].ret = "nil"
    /\ ws.Closed
    /\ Len(ws.Writes) = 1
    /\ result["t1"].err = ErrorsNew("mock error")

(* ------------------------ network.MockWebSocket ----------------------- *)
ViaWriteMessage(m) == m.via = "WriteMessage"
\* Task t's call of a method of the mock runs its body in this step.
MethodReturns(t) == pc[t] = "ws_body" /\ pc'[t] = "ret" /\ op[t].name \in WSMethods
Bookkeeping(w) == <<w.Messages, w.Writes, w.TimesWritten, w.Closed>>

\* C35: in every state reached by calls of the mock's methods from two tasks,
\* TimesWritten is the length of Writes, and the messages ReadMessage has
\* returned so far, followed by those still queued, are exactly the messages
\* stored by WriteMessage, in the order they were stored (so none is returned
\* twice and none stored by WriteControl is returned); a ReadMessage that
\* takes a message returns the one at the head of the queue; and a method
\* called while an error is injected for it returns that error and leaves
\* Messages, Writes, TimesWritten and Closed as they were.
C35_MockBookkeeping ==
    /\ [](/\ ws.TimesWritten = Len(ws.Writes)
          /\ wsRead \o ws.Messages = SelectSeq(ws.Writes, ViaWriteMessage))
    /\ [][\A t \in Tasks :
            MethodReturns(t) =>
                /\ wsRead' # wsRead =>
                      /\ wsRead' = Append(wsRead, Head(ws.Messages))
                      /\ calls'[t] = <<Call("ReadMessage", Head(ws.Messages).Data, "nil")>>
                /\ Injected(op[t].name) =>
                      /\ result'[t].err = ws.Errors[op[t].name]
                      /\ Bookkeeping(ws') = Bookkeeping(ws)]_vars

\* A WriteControl and a WriteMessage have stored their messages, a
\* ReadMessage has returned the second, and after SetError("ReadMessage")
\* task t2's ReadMessage has returned the injected error.
C35_Witness ==
    /\ ws.TimesWritten = 2
    /\ ws.Writes = <<Message(TextMessage, "m1", "WriteControl"),
                     Message(TextMessage, "m2", "WriteMessage")>>
    /\ wsRead = <<Message(TextMessage, "m2", "WriteMessage")>>
    /\ ws.Messages = <<>>
    /\ op["t2"].name = "ReadMessage" /\ pc["t2"] = "ret"
    /\ result["t2"].err = ErrorsNew("mock error")

====
